---------------------------- MODULE Spec2Model ----------------------------
(***************************************************************************)
(* A model of serde.ts (Kiruse/serde.ts): the byte cursors (Writer,        *)
(* Reader), the subprotocol registry (SerdeBase.set / setSimple), the      *)
(* standard subprotocols and the reference-resolving object/array codec    *)
(* (serializeObject, writeReferences, deserializeObject, readReferences).  *)
(*                                                                         *)
(* Representation.                                                         *)
(*  - A byte is a number 0..255, a buffer a sequence of bytes.  Positions  *)
(*    of the source are 0-based, sequences here are 1-based.               *)
(*  - A JavaScript string is the sequence of its code points; its          *)
(*    .length (UTF-16 code units) and its UTF-8 encoding are computed.     *)
(*  - A bigint is a sign and the little-endian base-256 digits of its      *)
(*    magnitude without leading zero digits (so 0 is the empty sequence).  *)
(*  - A value is a record [t, n, s]: t the kind, n a number (boolean 0/1,  *)
(*    heap address of an object, id of a Reference, sign of a bigint),     *)
(*    s a sequence (code points of a string, digits of a bigint).          *)
(*  - The heap maps addresses 1..Len(heap) to objects: kind ("array",      *)
(*    "object", or "instance" of a class of the caller), tag (the [SERDE]  *)
(*    property, "" when absent), keys and vals (the own enumerable entries *)
(*    in insertion order; an array has no keys, its entries are its        *)
(*    elements).                                                           *)
(***************************************************************************)
EXTENDS Integers, Sequences, FiniteSets, TLC

VARIABLES
  subprotocols,  \* SerdeBase.subprotocols: tag -> implementation
  hashes,        \* SerdeBase.hashes: hash -> tag
  heap,          \* the objects of the JavaScript heap
  root,          \* the value the caller passes to the operation
  pc,            \* the position of the calling program
  writer,        \* the Writer of the call
  reader,        \* the Reader of the call
  result,        \* what the last operation returned or threw
  registered,    \* the caller's record: tag -> the implementation it last registered
  context,       \* the SerializeContext of the last serialize call, and what the call did
  dcontext       \* the DeserializeContext the caller keeps between calls, and what they did

vars == <<subprotocols, hashes, heap, root, pc, writer, reader, result, registered, context,
          dcontext>>

---------------------------------------------------------------------------
(* Bounds of the model *)

MaxStrLen == 6      \* code points of a string given to the 'string' subprotocol
MaxBigBytes == 257  \* bytes of the magnitude of a bigint
MaxDigit == 2       \* a bigint's magnitude bytes are all the same digit 1..MaxDigit
MaxObjs == 3        \* objects of a value graph
MaxEdges == 3       \* fields and elements of a value graph, over all its objects
MaxMark == 2        \* distinct user-supplied implementations of a subprotocol
FarPast == 1073741824   \* reader positions from here on are held as one position
MaxCalls == 2       \* deserialize calls of one caller
MaxWritten == 12    \* bytes a caller of the Writer writes
MaxRefs == 3        \* elements of the array given to Reference.all
MaxOffset == 2      \* the byteOffset of a Uint8Array in its ArrayBuffer is at most this
UnderLen == 12      \* the bytes of the ArrayBuffer under a Uint8Array

---------------------------------------------------------------------------
(* Generic helpers *)

Max2(a, b) == IF a >= b THEN a ELSE b
Min2(a, b) == IF a <= b THEN a ELSE b

RECURSIVE Concat(_)
Concat(ss) == IF ss = <<>> THEN <<>> ELSE Head(ss) \o Concat(Tail(ss))

RECURSIVE SumSeq(_)
SumSeq(ns) == IF ns = <<>> THEN 0 ELSE Head(ns) + SumSeq(Tail(ns))

---------------------------------------------------------------------------
(* Values *)

Undef == [t |-> "undef", n |-> 0, s |-> <<>>]
Null == [t |-> "null", n |-> 0, s |-> <<>>]
Bool(b) == [t |-> "boolean", n |-> IF b THEN 1 ELSE 0, s |-> <<>>]
Str(cps) == [t |-> "string", n |-> 0, s |-> cps]
BigInt(neg, mag) == [t |-> "bigint", n |-> IF neg THEN 1 ELSE 0, s |-> mag]
Obj(a) == [t |-> "object", n |-> a, s |-> <<>>]
Sym == [t |-> "symbol", n |-> 0, s |-> <<>>]
Fn == [t |-> "function", n |-> 0, s |-> <<>>]
Number(x) == [t |-> "number", n |-> x, s |-> <<>>]

\* new Reference(id): an object with [SERDE] = 'reference' and the field id
Reference(id) == [t |-> "reference", n |-> id, s |-> <<>>]

Truthy(v) ==
  CASE v.t \in {"undef", "null"} -> FALSE
    [] v.t = "boolean" -> v.n = 1
    [] v.t = "number" -> v.n # 0
    [] v.t = "string" -> v.s # <<>>
    [] v.t = "bigint" -> v.s # <<>>
    [] OTHER -> TRUE

\* typeof v === 'object' for a value that is not null
IsObjectType(v) == v.t \in {"object", "reference"}

---------------------------------------------------------------------------
(* Text: TextEncoder.encode, TextDecoder.decode, String.length *)

ReplacementChar == 65533

\* the code points strings are built from: a, e-acute, euro sign, an emoji
Alphabet == {97, 233, 8364, 128512}

Utf16Units(cp) == IF cp > 65535 THEN 2 ELSE 1

\* value.length
StrLength(cps) == SumSeq([i \in 1..Len(cps) |-> Utf16Units(cps[i])])

Utf8Of(cp) ==
  IF cp < 128 THEN <<cp>>
  ELSE IF cp < 2048 THEN <<192 + (cp \div 64), 128 + (cp % 64)>>
  ELSE IF cp < 65536
    THEN <<224 + (cp \div 4096), 128 + ((cp \div 64) % 64), 128 + (cp % 64)>>
  ELSE <<240 + (cp \div 262144), 128 + ((cp \div 4096) % 64),
         128 + ((cp \div 64) % 64), 128 + (cp % 64)>>

\* encode(value)
encode(cps) == Concat([i \in 1..Len(cps) |-> Utf8Of(cps[i])])

IsCont(b) == b >= 128 /\ b <= 191

\* the number of continuation bytes a lead byte announces, -1 for no lead byte
Needed(b) ==
  IF b < 128 THEN 0
  ELSE IF b >= 194 /\ b <= 223 THEN 1
  ELSE IF b >= 224 /\ b <= 239 THEN 2
  ELSE IF b >= 240 /\ b <= 244 THEN 3
  ELSE -1

\* how many of the bytes after position i are continuation bytes, at most k
RECURSIVE ContRun(_, _, _)
ContRun(bs, i, k) ==
  IF k = 0 \/ i + 1 > Len(bs) \/ ~IsCont(bs[i + 1]) THEN 0
  ELSE 1 + ContRun(bs, i + 1, k - 1)

RECURSIVE DecodeFrom(_, _)
DecodeFrom(bs, i) ==
  IF i > Len(bs) THEN <<>>
  ELSE LET b == bs[i]
           k == Needed(b)
           got == IF k < 0 THEN 0 ELSE ContRun(bs, i, k)
       IN IF k < 0 \/ got < k
            THEN <<ReplacementChar>> \o DecodeFrom(bs, i + 1 + got)
          ELSE IF k = 0 THEN <<b>> \o DecodeFrom(bs, i + 1)
          ELSE IF k = 1
            THEN <<(b - 192) * 64 + (bs[i + 1] - 128)>> \o DecodeFrom(bs, i + 2)
          ELSE IF k = 2
            THEN <<(b - 224) * 4096 + (bs[i + 1] - 128) * 64 + (bs[i + 2] - 128)>>
                 \o DecodeFrom(bs, i + 3)
          ELSE <<(b - 240) * 262144 + (bs[i + 1] - 128) * 4096
                 + (bs[i + 2] - 128) * 64 + (bs[i + 3] - 128)>>
               \o DecodeFrom(bs, i + 4)

\* decode(bytes)
decode(bs) == DecodeFrom(bs, 1)

---------------------------------------------------------------------------
(* Writer *)

DefaultGrow == 1024

\* new Writer(): an empty buffer.  data holds the written bytes (the first
\* size bytes of the buffer; the rest of the buffer is zero), cap is
\* buffer.length.
NewWriter == [data |-> <<>>, cap |-> 0, size |-> 0, cursor |-> 0, grow |-> DefaultGrow,
              err |-> "none"]

\* Writer.resize
Resize(w, newSize) ==
  IF w.size < newSize THEN [w EXCEPT !.cap = newSize]
  ELSE [w EXCEPT !.cap = newSize, !.data = SubSeq(w.data, 1, newSize)]

\* Writer.fit
Fit(w, size) ==
  IF w.cursor + size > w.cap
    THEN Resize(w, w.cursor + Max2(Max2(w.grow, size), w.cap \div 10))
  ELSE w

\* the buffer after storing bs at 0-based position pos
Store(data, pos, bs) ==
  LET n == Max2(Len(data), pos + Len(bs))
  IN [i \in 1..n |->
        IF i > pos /\ i <= pos + Len(bs) THEN bs[i - pos]
        ELSE IF i <= Len(data) THEN data[i] ELSE 0]

\* an advance that adds n to size, as the first Writer did (this.size += n)
AdvanceAdding(w, n) == [w EXCEPT !.cursor = w.cursor + n, !.size = w.size + n]

\* Writer.advance: moves the cursor and raises size; the bytes are stored by the caller
Advance(w, n) ==
  [w EXCEPT !.cursor = w.cursor + n, !.size = Max2(w.cursor + n, w.size)]

\* Writer.writeBytes
WriteBytes(w, bs) ==
  LET f == Fit(w, Len(bs))
  IN Advance([f EXCEPT !.data = Store(f.data, f.cursor, bs)], Len(bs))

\* Writer.writeByte: a Uint8Array element keeps the low 8 bits
WriteByte(w, byte) ==
  LET f == Fit(w, 1)
  IN Advance([f EXCEPT !.data = Store(f.data, f.cursor, <<byte % 256>>)], 1)

\* Writer.writeBool
WriteBool(w, b) == WriteByte(w, IF b THEN 255 ELSE 0)

\* Writer.writeFlags: flag i goes to bit 7-i
RECURSIVE Pow2(_)
Pow2(n) == IF n = 0 THEN 1 ELSE 2 * Pow2(n - 1)

WriteFlags(w, flags) ==
  IF Len(flags) > 8 THEN [w EXCEPT !.err = "TooManyFlags"]
  ELSE WriteByte(w, SumSeq([i \in 1..Len(flags) |->
                              IF flags[i] THEN Pow2(7 - (i - 1)) ELSE 0]))

U32LE(n) == <<n % 256, (n \div 256) % 256, (n \div 65536) % 256, (n \div 16777216) % 256>>

\* Writer.writeUInt32
WriteUInt32(w, num) ==
  LET f == Fit(w, 4)
  IN Advance([f EXCEPT !.data = Store(f.data, f.cursor, U32LE(num))], 4)

\* Writer.compress
Compress(w) == Resize(w, w.size)

\* Writer.seek
Seek(w, offset) == [w EXCEPT !.cursor = Max2(0, Min2(offset, w.size))]

\* Writer.tell
Tell(w) == w.cursor

\* bigSizeOf: the number of 8-bit shifts until the magnitude is 0.  A
\* magnitude is the sequence of its base-256 digits, lowest first, the
\* highest not 0: every shift drops one digit.
bigSizeOf(mag) == Len(mag)

\* the loop of Writer.writeBigint: writeByte of the lowest digit and a shift,
\* bytes times; after fit(bytes + 5) no writeByte grows the buffer again
WriteMagnitude(w, bi, bytes) ==
  LET f == Fit(w, bytes)
      written == Advance([f EXCEPT !.data = Store(f.data, f.cursor, SubSeq(bi, 1, bytes))],
                         bytes)
  IN IF Len(bi) > bytes THEN [written EXCEPT !.err = "FailedToSerializeBigint"] ELSE written

\* Writer.writeBigint
WriteBigint(w, v) ==
  LET neg == v.n = 1
      bi == v.s
      bytes == bigSizeOf(bi)
      w1 == Fit(w, bytes + 5)
      w2 == WriteBool(w1, neg)
      w3 == WriteByte(w2, bytes)
  IN WriteMagnitude(w3, bi, bytes)

---------------------------------------------------------------------------
(* Reader *)

\* new Reader(buffer)
NewReader(buffer) == [buffer |-> buffer, cursor |-> 0, err |-> "none"]

\* Reader.readByte: -1 stands for undefined, read past the end of the buffer
ByteAt(r, pos) == IF pos < Len(r.buffer) THEN r.buffer[pos + 1] ELSE -1

\* A 32-bit unsigned number from 2^31 on is held as the number minus 2^32:
\* a count is below such a number whatever the count
Below(i, n) == n < 0 \/ i < n

\* Reader.advance: this.cursor += count.  Every position from FarPast on is
\* held as FarPast: they are all past the end of any buffer
AdvanceReader(r, count) ==
  [r EXCEPT !.cursor = IF count < 0 \/ count >= FarPast \/ r.cursor >= FarPast THEN FarPast
                       ELSE Min2(r.cursor + count, FarPast)]

ReadByte(r) == [r |-> AdvanceReader(r, 1), v |-> ByteAt(r, r.cursor)]

\* Reader.readBool: !!byte
ReadBool(r) == LET x == ReadByte(r) IN [r |-> x.r, v |-> x.v > 0]

\* Reader.readBytes: buffer.slice(cursor, cursor + size)
ReadBytes(r, size) ==
  [r |-> AdvanceReader(r, size),
   v |-> SubSeq(r.buffer, r.cursor + 1,
                IF Below(Len(r.buffer) - r.cursor, size) THEN Len(r.buffer)
                ELSE r.cursor + size)]

\* Reader.readFlags: flag i is bit 7-i
ReadFlags(r) ==
  LET x == ReadByte(r)
      byte == IF x.v < 0 THEN 0 ELSE x.v
  IN [r |-> x.r, v |-> [i \in 1..8 |-> (byte \div Pow2(7 - (i - 1))) % 2 = 1]]

\* Reader.readUInt32: a DataView read; out of the buffer it throws a RangeError
ReadUInt32(r) ==
  IF r.cursor + 4 > Len(r.buffer)
    THEN [r |-> [AdvanceReader(r, 4) EXCEPT !.err = "RangeError"], v |-> 0]
  ELSE LET high == r.buffer[r.cursor + 4]
       IN [r |-> AdvanceReader(r, 4),
           v |-> r.buffer[r.cursor + 1] + 256 * r.buffer[r.cursor + 2]
                 + 65536 * r.buffer[r.cursor + 3]
                 + 16777216 * (IF high >= 128 THEN high - 256 ELSE high)]

\* a magnitude as the number it denotes: leading zero digits do not count
RECURSIVE Normalize(_)
Normalize(mag) ==
  IF mag = <<>> THEN <<>>
  ELSE IF mag[Len(mag)] = 0 THEN Normalize(SubSeq(mag, 1, Len(mag) - 1))
  ELSE mag

\* the loop of Reader.readBigint: bi | byte << (8 * b), bytes times; the
\* first readByte past the end of the buffer gives BigInt(undefined), a TypeError
ReadMagnitude(r, bytes) ==
  LET left == Max2(0, Len(r.buffer) - r.cursor)
  IN IF left < bytes
       THEN [r |-> [AdvanceReader(r, left + 1) EXCEPT !.err = "TypeError"],
             v |-> SubSeq(r.buffer, r.cursor + 1, r.cursor + left)]
     ELSE [r |-> AdvanceReader(r, bytes),
           v |-> SubSeq(r.buffer, r.cursor + 1, r.cursor + bytes)]

\* Reader.readBigint
ReadBigint(r) ==
  LET neg == ReadBool(r)
      bytes == ReadByte(neg.r)
      m == ReadMagnitude(bytes.r, IF bytes.v < 0 THEN 0 ELSE bytes.v)
      mag == Normalize(m.v)
  IN [r |-> m.r, v |-> BigInt(neg.v /\ mag # <<>>, mag)]

---------------------------------------------------------------------------
(* The heap *)

NewObject(kind, tag) == [kind |-> kind, tag |-> tag, keys |-> <<>>, vals |-> <<>>]

\* the names of the fields of the model's mappings, by position: a, d, b, c, e
KeyNames == <<(<<97>>), (<<100>>), (<<98>>), (<<99>>), (<<101>>)>>

\* the decimal index of an array element as a property name ("0", "1", ...)
IndexKey(i) == <<48 + i>>

\* Object.entries(obj): the keys of an array are its indices
EntryKeys(o) ==
  IF o.kind = "array" THEN [i \in 1..Len(o.vals) |-> IndexKey(i - 1)] ELSE o.keys

\* isArrayLike: 'length' in value && 0 in value && value.length-1 in value
isArrayLike(o) == o.kind = "array" /\ Len(o.vals) > 0

\* an isValidPair that lets symbols pass
isValidPairNoSymbol(key, value) == value.t # "function"

\* isValidPair
isValidPair(key, value) == value.t # "symbol" /\ value.t # "function"

\* the positions of the entries that filter(isValidPair) keeps
RECURSIVE ValidPositions(_, _)
ValidPositions(o, i) ==
  IF i > Len(o.vals) THEN <<>>
  ELSE (IF isValidPair(EntryKeys(o)[i], o.vals[i]) THEN <<i>> ELSE <<>>)
       \o ValidPositions(o, i + 1)

---------------------------------------------------------------------------
(* The registry: SerdeBase.set, setSimple, standard *)

\* hash(tag) = parseInt(hashsum(tag), 16), a 32-bit number.  The library
\* function is given as a table over the tags of the model.  hash-sum folds
\* the characters of a string with hash * 31 + code, so the hashes of
\* "uPString" and "toString" coincide: 117 * 31 + 80 = 116 * 31 + 111.
hash(tag) ==
  CASE tag = "boolean" -> 305419896
    [] tag = "number" -> 19088743
    [] tag = "string" -> 1164413355
    [] tag = "bigint" -> 591751049
    [] tag = "undef" -> 2023406814
    [] tag = "null" -> 878082192
    [] tag = "regex" -> 1450744508
    [] tag = "regexp" -> 287454020
    [] tag = "buffer" -> 1432778632
    [] tag = "arraybuffer" -> 573785173
    [] tag = "typedarray" -> 1719109785
    [] tag = "array" -> 858993459
    [] tag = "object" -> 1145324612
    [] tag = "data-object" -> 2004318071
    [] tag = "reference" -> 1717986918
    [] tag = "test::simple" -> 1985229328
    [] tag = "t1" -> 439041101
    [] tag = "uPString" -> 926444222
    [] tag = "toString" -> 926444222
    [] OTHER -> 1

\* the property names every plain object inherits: `name in obj` is true for them
ObjectPrototypeKeys == {"constructor", "toString", "valueOf", "hasOwnProperty"}

\* subprotocol in this.subprotocols
HasTag(subs, tag) == tag \in DOMAIN subs \/ tag \in ObjectPrototypeKeys

\* a subprotocol { serialize, deserialize }: kind names the pair of functions,
\* mark tells two user-supplied pairs of the same kind apart
Impl(kind, mark) == [kind |-> kind, mark |-> mark]

Put(f, k, v) == [x \in DOMAIN f \cup {k} |-> IF x = k THEN v ELSE f[x]]

\* a set that lets a forced registration take a hash another tag holds
setOverCollision(reg, subprotocol, impl, force) ==
  LET hashed == hash(subprotocol)
  IN IF ~force /\ HasTag(reg.subprotocols, subprotocol)
       THEN [reg EXCEPT !.err = "DuplicateTag"]
     ELSE IF hashed \in DOMAIN reg.hashes /\ ~force
       THEN [reg EXCEPT !.err = "HashCollision"]
     ELSE [subprotocols |-> Put(reg.subprotocols, subprotocol, impl),
           hashes |-> Put(reg.hashes, hashed, subprotocol),
           err |-> "none"]

\* a set that writes the tag table before it looks at the hash index
setBeforeCheck(reg, subprotocol, impl, force) ==
  LET hashed == hash(subprotocol)
  IN IF ~force /\ HasTag(reg.subprotocols, subprotocol)
       THEN [reg EXCEPT !.err = "DuplicateTag"]
     ELSE IF hashed \in DOMAIN reg.hashes
             /\ (~force \/ reg.hashes[hashed] # subprotocol)
       THEN [reg EXCEPT !.subprotocols = Put(reg.subprotocols, subprotocol, impl),
                        !.err = "HashCollision"]
     ELSE [subprotocols |-> Put(reg.subprotocols, subprotocol, impl),
           hashes |-> Put(reg.hashes, hashed, subprotocol),
           err |-> "none"]

\* a set that keeps the implementation a registered tag already has
setKeepingFirst(reg, subprotocol, impl, force) ==
  LET hashed == hash(subprotocol)
  IN IF ~force /\ HasTag(reg.subprotocols, subprotocol)
       THEN [reg EXCEPT !.err = "DuplicateTag"]
     ELSE IF hashed \in DOMAIN reg.hashes
             /\ (~force \/ reg.hashes[hashed] # subprotocol)
       THEN [reg EXCEPT !.err = "HashCollision"]
     ELSE [subprotocols |-> IF subprotocol \in DOMAIN reg.subprotocols THEN reg.subprotocols
                            ELSE Put(reg.subprotocols, subprotocol, impl),
           hashes |-> Put(reg.hashes, hashed, subprotocol),
           err |-> "none"]

\* SerdeBase.set on the registry reg = [subprotocols, hashes]
set(reg, subprotocol, impl, force) ==
  LET hashed == hash(subprotocol)
  IN IF ~force /\ HasTag(reg.subprotocols, subprotocol)
       THEN [reg EXCEPT !.err = "DuplicateTag"]
     ELSE IF hashed \in DOMAIN reg.hashes
             /\ (~force \/ reg.hashes[hashed] # subprotocol)
       THEN [reg EXCEPT !.err = "HashCollision"]
     ELSE [subprotocols |-> Put(reg.subprotocols, subprotocol, impl),
           hashes |-> Put(reg.hashes, hashed, subprotocol),
           err |-> "none"]

\* SerdeBase.setSimple / SerdeProtocol.derive: the pair built from filter and rebuild
setSimple(reg, subprotocol, mark, force) == set(reg, subprotocol, Impl("simple", mark), force)

\* the chain of set calls: a failing call throws and ends the chain
RECURSIVE SetAll(_, _)
SetAll(reg, tags) ==
  IF tags = <<>> \/ reg.err # "none" THEN reg
  ELSE SetAll(set(reg, Head(tags)[1], Impl(Head(tags)[2], 0), FALSE), Tail(tags))

EmptyRegistry == [subprotocols |-> <<>>, hashes |-> <<>>, err |-> "none"]

\* SerdeBase.standard
standard ==
  SetAll(EmptyRegistry,
         << <<"boolean", "boolean">>, <<"number", "number">>, <<"string", "string">>,
            <<"bigint", "bigint">>, <<"undef", "undef">>, <<"null", "null">>,
            <<"regex", "regex">>, <<"regexp", "regex">>, <<"buffer", "buffer">>,
            <<"arraybuffer", "arraybuffer">>, <<"typedarray", "typedarray">>,
            <<"array", "object">>, <<"object", "object">>,
            <<"data-object", "data-object">>, <<"reference", "reference">> >>)

---------------------------------------------------------------------------
(* Serialization.  The state S of a serialize call: w the Writer, refs and *)
(* nextId the SerializeContext (refs in insertion order, each entry the    *)
(* identity obj and the id of its Reference), heap the heap (filter        *)
(* allocates), err the Error thrown, "none" while none is.                 *)

NewSerializeContext(h) ==
  [w |-> NewWriter, refs |-> <<>>, nextId |-> 0, heap |-> h, err |-> "none", depth |-> 0,
   log |-> <<>>]

\* The steps of the call, kept in S.log in their order.  e names the step:
\* "root" and "nested" the flags byte serializeObject writes for obj (n the
\* size of ctx.refs when it was entered), "entry" the value v that
\* serializeObject serializes for an element or field of obj, "table" the
\* count placeholder of writeReferences (n its position), "length" the
\* number v of elements or entries that serializeObject writes for obj (n
\* its position), "flush" the table entry written for obj (n its reference
\* id), "count" the count written back into the placeholder (n the count,
\* ctx.refs.size: the entries of ctx.refs at that time are the first n of
\* S.refs).
Event(e, obj, n, v) == [e |-> e, obj |-> obj, n |-> n, v |-> v]

Logged(S, event) == IF S.err = "none" THEN [S EXCEPT !.log = Append(S.log, event)] ELSE S

Throw(S, e) == IF S.err = "none" THEN [S EXCEPT !.err = e] ELSE S

RefIndex(refs, v) ==
  IF \E i \in 1..Len(refs) : refs[i].obj = v
    THEN CHOOSE i \in 1..Len(refs) : refs[i].obj = v
  ELSE 0

\* a ref that makes a new Reference for every object it is given
refAlwaysNew(S, value) ==
  IF ~Truthy(value) \/ ~IsObjectType(value) THEN [S |-> S, v |-> value]
  ELSE [S |-> [S EXCEPT !.refs = Append(S.refs, [obj |-> value, id |-> S.nextId]),
                        !.nextId = S.nextId + 1],
        v |-> Reference(S.nextId)]

\* SerializeContext.ref: [S |-> the context after the call, v |-> what it returns]
ref(S, value) ==
  IF ~Truthy(value) \/ ~IsObjectType(value) THEN [S |-> S, v |-> value]
  ELSE IF RefIndex(S.refs, value) = 0
    THEN [S |-> [S EXCEPT !.refs = Append(S.refs, [obj |-> value, id |-> S.nextId]),
                          !.nextId = S.nextId + 1],
          v |-> Reference(S.nextId)]
  ELSE [S |-> S, v |-> Reference(S.refs[RefIndex(S.refs, value)].id)]

\* SerdeBase.getSubProtocolOf: the tag, or the Error thrown
getSubProtocolOf(h, value) ==
  CASE value.t = "symbol" -> [tag |-> "", err |-> "UnsupportedType"]
    [] value.t = "function" -> [tag |-> "", err |-> "UnsupportedType"]
    [] value.t = "undef" -> [tag |-> "undef", err |-> "none"]
    [] value.t = "null" -> [tag |-> "null", err |-> "none"]
    [] value.t \in {"boolean", "number", "bigint", "string"} ->
         [tag |-> value.t, err |-> "none"]
    [] value.t = "reference" -> [tag |-> "reference", err |-> "none"]
    [] value.t = "object" ->
         IF h[value.n].tag # "" THEN [tag |-> h[value.n].tag, err |-> "none"]
         ELSE [tag |-> "object", err |-> "none"]

\* The call stack.  The 'data-object' serializer calls serialize on the
\* values it holds without ctx.ref, so a data-object that reaches itself
\* through data-objects is entered again without end and JavaScript throws
\* a RangeError (Maximum call stack size exceeded).  Otherwise a data-object
\* is on the stack at most twice, once before the root table is opened and
\* once under it: a longer chain of serializers is one without end.
StackLimit(h) == 2 * Cardinality({a \in 1..Len(h) : h[a].tag = "data-object"})

\* the key a derive'd type's filter leaves out and its rebuild sets: "d"
EnrichKey == <<100>>

\* filter of the derive'd type: the plain projection of the fields but EnrichKey
filter(o) ==
  LET keep == SelectSeq([i \in 1..Len(o.vals) |-> i], LAMBDA i : EntryKeys(o)[i] # EnrichKey)
  IN [kind |-> "object", tag |-> "",
      keys |-> [j \in 1..Len(keep) |-> EntryKeys(o)[keep[j]]],
      vals |-> [j \in 1..Len(keep) |-> o.vals[keep[j]]]]

RECURSIVE serialize(_, _, _)
RECURSIVE serializeAs(_, _, _, _)
RECURSIVE serializeObject(_, _, _)
RECURSIVE SerializeElements(_, _, _, _)
RECURSIVE SerializeEntries(_, _, _, _)
RECURSIVE SerializeDataItems(_, _, _, _)
RECURSIVE SerializeDataEntries(_, _, _, _)
RECURSIVE WriteReferencesLoop(_, _, _)
RECURSIVE writeReferences(_, _)

\* SerdeBase.serialize
serialize(reg, S, value) ==
  IF S.err # "none" THEN S
  ELSE LET sub == getSubProtocolOf(S.heap, value)
       IN IF sub.err # "none" THEN Throw(S, sub.err)
          ELSE LET S1 == [S EXCEPT !.w = WriteUInt32(S.w, hash(sub.tag))]
                   S2 == serializeAs(reg, S1, sub.tag, value)
               IN IF S2.err # "none" THEN S2 ELSE [S2 EXCEPT !.w = Compress(S2.w)]

\* the serialize function of a subprotocol
Encode(reg, S, impl, value) ==
  CASE impl.kind = "boolean" ->
         [S EXCEPT !.w = WriteByte(S.w, IF Truthy(value) THEN 1 ELSE 0)]
    [] impl.kind = "string" ->
         IF value.t # "string" THEN Throw(S, "TypeError")
         ELSE [S EXCEPT !.w = WriteBytes(WriteUInt32(S.w, StrLength(value.s)),
                                         encode(value.s))]
    [] impl.kind = "bigint" ->
         IF value.t # "bigint" THEN Throw(S, "TypeError")
         ELSE [S EXCEPT !.w = WriteBigint(S.w, value)]
    [] impl.kind \in {"undef", "null"} -> S
    [] impl.kind = "reference" -> [S EXCEPT !.w = WriteUInt32(S.w, value.n)]
    [] impl.kind = "object" -> serializeObject(reg, S, value)
    [] impl.kind = "data-object" ->
         IF value.t # "object" THEN Throw(S, "TypeError")
         ELSE IF S.depth >= StackLimit(S.heap) THEN Throw(S, "RangeError")
         ELSE LET o == S.heap[value.n]
                  in == [S EXCEPT !.depth = S.depth + 1]
                  out ==
                    IF isArrayLike(o)
                      THEN SerializeDataItems(
                             reg,
                             [in EXCEPT !.w = WriteUInt32(WriteBool(S.w, TRUE), Len(o.vals))],
                             value.n, 1)
                    ELSE SerializeDataEntries(
                           reg,
                           [in EXCEPT !.w = WriteUInt32(WriteBool(S.w, FALSE), Len(o.vals))],
                           value.n, 1)
              IN [out EXCEPT !.depth = S.depth]
    [] impl.kind = "simple" ->
         IF value.t # "object" THEN Throw(S, "TypeError")
         ELSE serialize(reg, [S EXCEPT !.heap = Append(S.heap, filter(S.heap[value.n]))],
                        Obj(Len(S.heap) + 1))
    [] impl.kind = "custom" -> [S EXCEPT !.w = WriteByte(S.w, impl.mark)]
    [] OTHER -> Throw(S, "Unmodelled")

\* SerdeBase.serializeAs
serializeAs(reg, S, subprotocol, value) ==
  IF S.err # "none" THEN S
  ELSE IF ~HasTag(reg.subprotocols, subprotocol) THEN Throw(S, "UnknownTag")
  ELSE IF subprotocol \notin DOMAIN reg.subprotocols THEN Throw(S, "TypeError")
  ELSE Encode(reg, S, reg.subprotocols[subprotocol], value)

\* the 'data-object' serializer, array branch: for (const item of obj)
SerializeDataItems(reg, S, a, i) ==
  IF S.err # "none" \/ i > Len(S.heap[a].vals) THEN S
  ELSE SerializeDataItems(reg, serialize(reg, S, S.heap[a].vals[i]), a, i + 1)

\* the 'data-object' serializer, mapping branch: for (const [key, value] of entries)
SerializeDataEntries(reg, S, a, i) ==
  IF S.err # "none" \/ i > Len(S.heap[a].vals) THEN S
  ELSE LET S1 == serializeAs(reg, S, "string", Str(EntryKeys(S.heap[a])[i]))
       IN SerializeDataEntries(reg, serialize(reg, S1, S.heap[a].vals[i]), a, i + 1)

\* serializeObject, array branch: value.forEach(value => serialize(ctx.ref(value)))
SerializeElements(reg, S, a, i) ==
  IF S.err # "none" \/ i > Len(S.heap[a].vals) THEN S
  ELSE LET r == ref(S, S.heap[a].vals[i])
       IN SerializeElements(
            reg, serialize(reg, Logged(r.S, Event("entry", Obj(a), i, r.v)), r.v), a, i + 1)

\* serializeObject, mapping branch: entries.forEach(([key, value]) => ...)
SerializeEntries(reg, S, a, positions) ==
  IF S.err # "none" \/ positions = <<>> THEN S
  ELSE LET i == Head(positions)
           S1 == serializeAs(reg, S, "string", Str(EntryKeys(S.heap[a])[i]))
           r == ref(S1, S.heap[a].vals[i])
       IN SerializeEntries(
            reg, serialize(reg, Logged(r.S, Event("entry", Obj(a), i, r.v)), r.v),
            a, Tail(positions))

\* a serializeObject that sets the root flag of every object
serializeObjectRootFlag(reg, S, value) ==
  LET isRoot == Len(S.refs) = 0
  IN IF ~Truthy(value) THEN Throw(S, "InvalidObject")
     ELSE IF value.t # "object" THEN Throw(S, "TypeError")
     ELSE LET o == S.heap[value.n]
              S1 == ref(S, value).S
              S2 == Logged([S1 EXCEPT !.w = WriteFlags(S1.w, <<TRUE, isArrayLike(o)>>)],
                           Event("root", value, Len(S.refs), Undef))
          IN IF isRoot THEN writeReferences(reg, S2)
             ELSE IF isArrayLike(o)
               THEN SerializeElements(
                      reg,
                      Logged([S2 EXCEPT !.w = WriteUInt32(S2.w, Len(o.vals))],
                             Event("length", value, Tell(S2.w), Number(Len(o.vals)))),
                      value.n, 1)
             ELSE LET entries == ValidPositions(o, 1)
                  IN SerializeEntries(
                       reg,
                       Logged([S2 EXCEPT !.w = WriteUInt32(S2.w, Len(entries))],
                              Event("length", value, Tell(S2.w), Number(Len(entries)))),
                       value.n, entries)

\* serializeObject
serializeObject(reg, S, value) ==
  LET isRoot == Len(S.refs) = 0
  IN IF ~Truthy(value) THEN Throw(S, "InvalidObject")
     ELSE IF value.t # "object" THEN Throw(S, "TypeError")
     ELSE LET o == S.heap[value.n]
              S1 == ref(S, value).S
              S2 == Logged([S1 EXCEPT !.w = WriteFlags(S1.w, <<isRoot, isArrayLike(o)>>)],
                           Event(IF isRoot THEN "root" ELSE "nested", value, Len(S.refs), Undef))
          IN IF isRoot THEN writeReferences(reg, S2)
             ELSE IF isArrayLike(o)
               THEN SerializeElements(
                      reg,
                      Logged([S2 EXCEPT !.w = WriteUInt32(S2.w, Len(o.vals))],
                             Event("length", value, Tell(S2.w), Number(Len(o.vals)))),
                      value.n, 1)
             ELSE LET entries == ValidPositions(o, 1)
                  IN SerializeEntries(
                       reg,
                       Logged([S2 EXCEPT !.w = WriteUInt32(S2.w, Len(entries))],
                              Event("length", value, Tell(S2.w), Number(Len(entries)))),
                       value.n, entries)

\* a find that returns the first entry, written or not
findFirst(refs, written) == IF Len(refs) > 0 THEN 1 ELSE 0

\* find(ctx.refs, ([obj]) => !written.has(obj)): the position of the entry, 0 for none
find(refs, written) ==
  IF \E i \in 1..Len(refs) : refs[i].obj \notin written
    THEN CHOOSE i \in 1..Len(refs) :
           /\ refs[i].obj \notin written
           /\ \A j \in 1..(i - 1) : refs[j].obj \in written
  ELSE 0

\* a loop that takes the identities found during a flush for written
RECURSIVE WriteReferencesLoopKnown(_, _, _)
WriteReferencesLoopKnown(reg, S, written) ==
  IF S.err # "none" \/ find(S.refs, written) = 0 THEN S
  ELSE LET next == S.refs[find(S.refs, written)]
           S1 == Logged([S EXCEPT !.w = WriteUInt32(S.w, next.id)],
                        Event("flush", next.obj, next.id, Undef))
           S2 == serialize(reg, S1, next.obj)
       IN WriteReferencesLoopKnown(reg, S2, {S2.refs[i].obj : i \in 1..Len(S2.refs)})

\* the while loop of writeReferences
WriteReferencesLoop(reg, S, written) ==
  IF S.err # "none" \/ find(S.refs, written) = 0 THEN S
  ELSE LET next == S.refs[find(S.refs, written)]
           S1 == Logged([S EXCEPT !.w = WriteUInt32(S.w, next.id)],
                        Event("flush", next.obj, next.id, Undef))
       IN WriteReferencesLoop(reg, serialize(reg, S1, next.obj), written \cup {next.obj})

\* a writeReferences that writes the count of the identities known when the
\* table is opened, in one pass
writeReferencesCountFirst(reg, S) ==
  LET cursorStart == Tell(S.w)
      S1 == Logged([S EXCEPT !.w = WriteUInt32(S.w, Len(S.refs))],
                   Event("table", Undef, cursorStart, Undef))
      S2 == WriteReferencesLoop(reg, S1, {})
  IN IF S2.err # "none" THEN S2
     ELSE Logged(S2, Event("count", Undef, Len(S.refs), Undef))

\* writeReferences
writeReferences(reg, S) ==
  LET cursorStart == Tell(S.w)
      S1 == Logged([S EXCEPT !.w = WriteUInt32(S.w, 0)],
                   Event("table", Undef, cursorStart, Undef))
      S2 == WriteReferencesLoop(reg, S1, {})
      cursorEnd == Tell(S2.w)
  IN IF S2.err # "none" THEN S2
     ELSE Logged([S2 EXCEPT !.w = Seek(WriteUInt32(Seek(S2.w, cursorStart), Len(S2.refs)),
                                       cursorEnd)],
                 Event("count", Undef, Len(S2.refs), Undef))

---------------------------------------------------------------------------
(* Deserialization.  The state D of a deserialize call: r the Reader, heap *)
(* the heap (decoding allocates), refs the pending DeReferences of the     *)
(* DeserializeContext in insertion order (id, and the substitute closure   *)
(* as the container target and the position pos of the field it            *)
(* overwrites), err the Error thrown.  Every operator returns              *)
(* [D |-> the state after it, v |-> the value it returns].                 *)

NewDeserializeContext(h, buffer) ==
  [r |-> NewReader(buffer), heap |-> h, refs |-> <<>>, err |-> "none", log |-> <<>>]

\* The calls of the substitute callbacks, kept in D.log in their order: ref
\* the position in ctx.refs of the DeReference called, obj what it was given.
Substituted(D, refs, obj) ==
  [D EXCEPT !.log = Append(D.log, [ref |-> Len(D.refs) - Len(refs) + 1, obj |-> obj])]

ThrowD(D, e) == [D |-> IF D.err = "none" THEN [D EXCEPT !.err = e] ELSE D, v |-> Undef]

\* a Reader operation inside a deserialize call
Read(D, x) ==
  [D |-> [D EXCEPT !.r = x.r, !.err = IF D.err = "none" THEN x.r.err ELSE D.err],
   v |-> x.v]

\* the tag of the derive'd type of the model
DerivedTag == "test::simple"

\* rebuild of the derive'd type: the fields of the projection and EnrichKey: true
rebuild(o) ==
  LET keep == SelectSeq([i \in 1..Len(o.vals) |-> i], LAMBDA i : EntryKeys(o)[i] # EnrichKey)
  IN [kind |-> "object", tag |-> DerivedTag,
      keys |-> [j \in 1..Len(keep) |-> EntryKeys(o)[keep[j]]] \o <<EnrichKey>>,
      vals |-> [j \in 1..Len(keep) |-> o.vals[keep[j]]] \o <<Bool(TRUE)>>]

\* Object.fromEntries: a later entry of the same key overwrites the value of the first
RECURSIVE FromEntries(_, _, _)
FromEntries(o, keys, values) ==
  IF keys = <<>> THEN o
  ELSE LET k == Head(keys)
           at == IF \E i \in 1..Len(o.keys) : o.keys[i] = k
                   THEN CHOOSE i \in 1..Len(o.keys) : o.keys[i] = k
                 ELSE 0
       IN FromEntries(
            IF at = 0
              THEN [o EXCEPT !.keys = Append(o.keys, k), !.vals = Append(o.vals, Head(values))]
            ELSE [o EXCEPT !.vals[at] = Head(values)],
            Tail(keys), Tail(values))

\* the scan of deserializeObject: a DeReference for every field holding a Reference
ScanReferences(D, a) ==
  LET o == D.heap[a]
      at == SelectSeq([i \in 1..Len(o.vals) |-> i], LAMBDA i : o.vals[i].t = "reference")
  IN [D EXCEPT !.refs = D.refs \o [j \in 1..Len(at) |->
                                     [id |-> o.vals[at[j]].n, target |-> a, pos |-> at[j]]]]

\* the objects the fields of object a hold
Fields(h, a) ==
  {h[a].vals[i].n : i \in {j \in 1..Len(h[a].vals) : h[a].vals[j].t = "object"}}

\* the objects reachable from the objects in seen through fields
RECURSIVE Reachable(_, _)
Reachable(h, seen) ==
  LET more == UNION {Fields(h, a) : a \in seen} \ seen
  IN IF more = {} THEN seen ELSE Reachable(h, seen \cup more)

\* a Reference is the value of some field of an object reachable from value
HoldsReference(h, value) ==
  /\ value.t = "object"
  /\ \E a \in Reachable(h, {value.n}) :
       \E i \in 1..Len(h[a].vals) : h[a].vals[i].t = "reference"

\* assertReferenceless: TRUE when it throws
assertReferenceless(h, value) == HoldsReference(h, value)

RECURSIVE deserialize(_, _)
RECURSIVE deserializeAs(_, _, _)
RECURSIVE deserializeObject(_, _)
RECURSIVE DeserializeSequence(_, _, _, _, _)
RECURSIVE ReadReferencesLoop(_, _, _, _, _)
RECURSIVE readReferences(_, _)

\* SerdeBase.deserialize
deserialize(reg, D) ==
  IF D.err # "none" THEN ThrowD(D, D.err)
  ELSE LET hashed == Read(D, ReadUInt32(D.r))
       IN IF hashed.D.err # "none" THEN ThrowD(hashed.D, hashed.D.err)
          ELSE IF hashed.v \notin DOMAIN reg.hashes THEN ThrowD(hashed.D, "UnknownTagHash")
          ELSE deserializeAs(reg, hashed.D, reg.hashes[hashed.v])

\* count values read one after the other, each preceded by its key when
\* withKeys: [D, keys, vals]
DeserializeSequence(reg, D, count, withKeys, acc) ==
  IF D.err # "none" \/ ~Below(Len(acc.vals), count) THEN [D |-> D, keys |-> acc.keys, vals |-> acc.vals]
  ELSE LET key == IF withKeys THEN deserializeAs(reg, D, "string") ELSE [D |-> D, v |-> Undef]
           value == deserialize(reg, key.D)
       IN DeserializeSequence(reg, value.D, count, withKeys,
                              [keys |-> Append(acc.keys, key.v.s),
                               vals |-> Append(acc.vals, value.v)])

\* the allocation of a decoded object: [D, v] with v the new object
Allocate(D, o) == [D |-> [D EXCEPT !.heap = Append(D.heap, o)], v |-> Obj(Len(D.heap) + 1)]

\* the deserialize function of a subprotocol
Decode(reg, D, impl) ==
  CASE impl.kind = "boolean" -> Read(D, [r |-> ReadByte(D.r).r, v |-> Bool(ReadByte(D.r).v > 0)])
    [] impl.kind = "string" ->
         LET length == Read(D, ReadUInt32(D.r))
         IN IF length.D.err # "none" THEN ThrowD(length.D, length.D.err)
            ELSE LET bytes == ReadBytes(length.D.r, length.v)
                 IN Read(length.D, [r |-> bytes.r, v |-> Str(decode(bytes.v))])
    [] impl.kind = "bigint" -> Read(D, ReadBigint(D.r))
    [] impl.kind = "undef" -> [D |-> D, v |-> Undef]
    [] impl.kind = "null" -> [D |-> D, v |-> Null]
    [] impl.kind = "reference" ->
         LET id == Read(D, ReadUInt32(D.r)) IN [D |-> id.D, v |-> Reference(id.v)]
    [] impl.kind = "object" -> deserializeObject(reg, D)
    [] impl.kind = "data-object" ->
         LET isArray == Read(D, ReadBool(D.r))
             count == Read(isArray.D, ReadUInt32(isArray.D.r))
             items == DeserializeSequence(reg, count.D, count.v, ~isArray.v,
                                          [keys |-> <<>>, vals |-> <<>>])
         IN IF items.D.err # "none" THEN ThrowD(items.D, items.D.err)
            ELSE IF isArray.v
              THEN Allocate(items.D, [NewObject("array", "") EXCEPT !.vals = items.vals])
            ELSE Allocate(items.D, FromEntries(NewObject("object", ""), items.keys, items.vals))
    [] impl.kind = "simple" ->
         LET data == deserialize(reg, D)
         IN IF data.D.err # "none" THEN data
            ELSE IF data.v.t # "object" THEN ThrowD(data.D, "TypeError")
            ELSE Allocate(data.D, rebuild(data.D.heap[data.v.n]))
    [] impl.kind = "custom" ->
         LET byte == Read(D, ReadByte(D.r)) IN [D |-> byte.D, v |-> Number(impl.mark)]
    [] OTHER -> ThrowD(D, "Unmodelled")

\* SerdeBase.deserializeAs
deserializeAs(reg, D, subprotocol) ==
  IF D.err # "none" THEN ThrowD(D, D.err)
  ELSE IF ~HasTag(reg.subprotocols, subprotocol) THEN ThrowD(D, "UnknownTag")
  ELSE IF subprotocol \notin DOMAIN reg.subprotocols THEN ThrowD(D, "TypeError")
  ELSE Decode(reg, D, reg.subprotocols[subprotocol])

\* deserializeObject
deserializeObject(reg, D) ==
  LET flags == Read(D, ReadFlags(D.r))
      isRoot == flags.v[1]
      isArray == flags.v[2]
  IN IF isRoot THEN readReferences(reg, flags.D)
     ELSE LET length == Read(flags.D, ReadUInt32(flags.D.r))
              items == DeserializeSequence(reg, length.D, length.v, ~isArray,
                                           [keys |-> <<>>, vals |-> <<>>])
          IN IF items.D.err # "none" THEN ThrowD(items.D, items.D.err)
             ELSE LET made ==
                        IF isArray
                          THEN Allocate(items.D,
                                        [NewObject("array", "") EXCEPT !.vals = items.vals])
                        ELSE Allocate(items.D,
                                      FromEntries(NewObject("object", ""),
                                                  items.keys, items.vals))
                  IN [D |-> ScanReferences(made.D, made.v.n), v |-> made.v]

\* the first loop of readReferences: objs[refid] = serde.deserialize(reader, ctx)
ReadReferencesLoop(reg, D, i, count, objs) ==
  IF D.err # "none" \/ ~Below(i, count) THEN [D |-> D, v |-> objs]
  ELSE LET refid == Read(D, ReadUInt32(D.r))
           obj == deserialize(reg, refid.D)
       IN ReadReferencesLoop(reg, obj.D, i + 1, count, Put(objs, refid.v, obj.v))

\* a second loop that passes over a DeReference whose id no entry has
RECURSIVE SubstituteFound(_, _, _)
SubstituteFound(D, refs, objs) ==
  IF D.err # "none" \/ refs = <<>> THEN D
  ELSE LET r == Head(refs)
       IN IF r.id \notin DOMAIN objs THEN SubstituteFound(D, Tail(refs), objs)
          ELSE SubstituteFound(
                 Substituted([D EXCEPT !.heap[r.target].vals[r.pos] = objs[r.id]],
                             refs, objs[r.id]),
                 Tail(refs), objs)

\* the second loop of readReferences: ref.substitute(objs[ref.id])
RECURSIVE Substitute(_, _, _)
Substitute(D, refs, objs) ==
  IF D.err # "none" \/ refs = <<>> THEN D
  ELSE LET r == Head(refs)
       IN IF r.id \notin DOMAIN objs THEN [D EXCEPT !.err = "DanglingReferenceId"]
          ELSE Substitute(
                 Substituted([D EXCEPT !.heap[r.target].vals[r.pos] = objs[r.id]],
                             refs, objs[r.id]),
                 Tail(refs), objs)

\* readReferences
readReferences(reg, D) ==
  LET count == Read(D, ReadUInt32(D.r))
      read == ReadReferencesLoop(reg, count.D, 0, count.v, <<>>)
      objs == read.v
      D2 == Substitute(read.D, read.D.refs, objs)
      first == IF 0 \in DOMAIN objs THEN objs[0] ELSE Undef
  IN IF D2.err # "none" THEN ThrowD(D2, D2.err)
     ELSE IF assertReferenceless(D2.heap, first) THEN ThrowD(D2, "UnresolvedReference")
     ELSE [D |-> D2, v |-> first]

---------------------------------------------------------------------------
(* The calling program: it builds a value, serializes it with a fresh      *)
(* Writer and SerializeContext, and deserializes the bytes with a fresh    *)
(* Reader and DeserializeContext.                                          *)

Registry == [subprotocols |-> subprotocols, hashes |-> hashes, err |-> "none"]

\* the SerializeContext a serialize call leaves, and the steps the call took
ContextOf(S) == [refs |-> S.refs, nextId |-> S.nextId, log |-> S.log]

NoContext == ContextOf(NewSerializeContext(<<>>))

\* the DeserializeContext a deserialize call leaves, the calls its callbacks
\* got, and calls: the size of the heap when each call using it began
KeptContext(D, calls) == [refs |-> D.refs, log |-> D.log, calls |-> calls]

NoDeserializeContext == KeptContext(NewDeserializeContext(<<>>, <<>>), <<>>)

NoResult == [op |-> "none", err |-> "none", v |-> Undef, tag |-> "", force |-> FALSE]

Returned(op, err, v) == [op |-> op, err |-> err, v |-> v, tag |-> "", force |-> FALSE]

\* the tags the caller registers implementations of
UserTags == {"t1", "uPString", "toString"}

NothingRegistered == [t \in UserTags |-> [mark |-> 0, replaced |-> FALSE]]

\* the primitive leaves of the value graphs: undefined, null, true, "a", "\u00e9"
Leaves == {Undef, Null, Bool(TRUE), Str(<<97>>), Str(<<233>>)}

\* the number of fields and elements of all objects
Edges(h) == SumSeq([a \in 1..Len(h) |-> Len(h[a].vals)])

\* obj[key] = v for the next key of a mapping, obj.push(v) for an array
Push(o, v) ==
  [o EXCEPT !.vals = Append(@, v),
            !.keys = IF o.kind = "array" THEN @ ELSE Append(@, KeyNames[Len(o.vals) + 1])]

\* the caller stores a primitive or an object it already has in an object
AddValue ==
  /\ pc = "build"
  /\ Edges(heap) < MaxEdges
  /\ \E a \in 1..Len(heap) :
       \E v \in Leaves \cup {Obj(b) : b \in 1..Len(heap)} :
         heap' = [heap EXCEPT ![a] = Push(@, v)]
  /\ UNCHANGED <<subprotocols, hashes, registered, root, pc, writer, reader, result, context,
               dcontext>>

\* the caller stores a new empty array or plain mapping in an object
AddObject ==
  /\ pc = "build"
  /\ Edges(heap) < MaxEdges
  /\ Len(heap) < MaxObjs
  /\ \E a \in 1..Len(heap) :
       \E kind \in {"array", "object"} :
         heap' = Append([heap EXCEPT ![a] = Push(@, Obj(Len(heap) + 1))],
                        NewObject(kind, ""))
  /\ UNCHANGED <<subprotocols, hashes, registered, root, pc, writer, reader, result, context,
               dcontext>>

\* serde.serialize(root)
Serialize ==
  /\ pc = "build"
  /\ LET S == serialize(Registry, NewSerializeContext(heap), root)
     IN /\ writer' = S.w
        /\ heap' = S.heap
        /\ context' = ContextOf(S)
        /\ result' = Returned("serialize", S.err, Undef)
  /\ pc' = "serialized"
  /\ UNCHANGED <<subprotocols, hashes, registered, root, reader, dcontext>>

\* serde.deserialize(bytes) of the bytes serialize returned
Deserialize ==
  /\ pc = "serialized"
  /\ result.err = "none"
  /\ LET x == deserialize(Registry, NewDeserializeContext(heap, writer.data))
     IN /\ reader' = x.D.r
        /\ heap' = x.D.heap
        /\ result' = Returned("deserialize", x.D.err, x.v)
  /\ pc' = "done"
  /\ UNCHANGED <<subprotocols, hashes, registered, root, writer, context, dcontext>>

InitGraph ==
  /\ subprotocols = standard.subprotocols
  /\ hashes = standard.hashes
  /\ registered = NothingRegistered
  /\ \E kind \in {"array", "object"} : heap = <<NewObject(kind, "")>>
  /\ root = Obj(1)
  /\ pc = "build"
  /\ writer = NewWriter
  /\ reader = NewReader(<<>>)
  /\ result = NoResult
  /\ context = NoContext
  /\ dcontext = NoDeserializeContext

NextGraph == AddValue \/ AddObject \/ Serialize \/ Deserialize

\* value graphs of plain arrays and mappings, serialized and deserialized
SpecGraph == InitGraph /\ [][NextGraph]_vars

---------------------------------------------------------------------------
(* The 'string' and 'bigint' subprotocols on their own: serializeAs and    *)
(* deserializeAs of one primitive                                          *)

RECURSIVE SeqsUpTo(_, _)
SeqsUpTo(alphabet, n) ==
  IF n = 0 THEN {<<>>}
  ELSE LET shorter == SeqsUpTo(alphabet, n - 1)
       IN shorter \cup {Append(x, c) : x \in {y \in shorter : Len(y) = n - 1}, c \in alphabet}

Strings == {Str(cps) : cps \in SeqsUpTo(Alphabet, MaxStrLen)}

BigInts ==
  {BigInt(FALSE, <<>>)}
    \cup {BigInt(neg, [i \in 1..n |-> d]) :
            neg \in BOOLEAN, n \in 1..MaxBigBytes, d \in 1..MaxDigit}

\* serde.serializeAs(typeof root, root).compress().buffer
SerializeAs ==
  /\ pc = "start"
  /\ LET S == serializeAs(Registry, NewSerializeContext(heap), root.t, root)
     IN /\ writer' = Compress(S.w)
        /\ context' = ContextOf(S)
        /\ result' = Returned("serializeAs", S.err, Undef)
  /\ pc' = "written"
  /\ UNCHANGED <<subprotocols, hashes, registered, heap, root, reader, dcontext>>

\* serde.deserializeAs(typeof root, new Reader(bytes))
DeserializeAs ==
  /\ pc = "written"
  /\ LET x == deserializeAs(Registry, NewDeserializeContext(heap, writer.data), root.t)
     IN /\ reader' = x.D.r
        /\ result' = Returned("deserializeAs", x.D.err, x.v)
  /\ pc' = "read"
  /\ UNCHANGED <<subprotocols, hashes, registered, heap, root, writer, context, dcontext>>

InitPrimitive ==
  /\ subprotocols = standard.subprotocols
  /\ hashes = standard.hashes
  /\ registered = NothingRegistered
  /\ heap = <<>>
  /\ root \in Strings \cup BigInts
  /\ pc = "start"
  /\ writer = NewWriter
  /\ reader = NewReader(<<>>)
  /\ result = NoResult
  /\ context = NoContext
  /\ dcontext = NoDeserializeContext

NextPrimitive == SerializeAs \/ DeserializeAs

SpecPrimitive == InitPrimitive /\ [][NextPrimitive]_vars

---------------------------------------------------------------------------
(* Properties of the round trip of a value graph *)

\* obj[key], undefined when obj has no such property
FieldAt(o, key) ==
  LET keys == EntryKeys(o)
  IN IF \E i \in 1..Len(keys) : keys[i] = key
       THEN o.vals[CHOOSE i \in 1..Len(keys) : keys[i] = key]
     ELSE Undef

\* the pairs <<x, y>> one field away from a pair <<a, b>> of pairs: x = a[key]
\* is an object and y = b[key], for the same key
Followed(h, pairs) ==
  UNION {{<<h[p[1]].vals[i].n, FieldAt(h[p[2]], EntryKeys(h[p[1]])[i])>> :
            i \in {j \in 1..Len(h[p[1]].vals) : h[p[1]].vals[j].t = "object"}} :
         p \in pairs}

\* the pairs <<x, y>> of Followed whose y is an object, as pairs of objects
FollowedObjects(h, pairs) ==
  {<<q[1], q[2].n>> : q \in {f \in Followed(h, pairs) : f[2].t = "object"}}

\* every pair reached from the pairs in seen by following the same fields on both sides
RECURSIVE Corresponding(_, _)
Corresponding(h, seen) ==
  LET more == FollowedObjects(h, seen) \ seen
  IN IF more = {} THEN seen ELSE Corresponding(h, seen \cup more)

\* the round trip returned a value
RoundTripDone == pc = "done"

RoundTripReturned == pc = "done" /\ result.err = "none" /\ result.v.t = "object"

\* the objects of the value given to serialize
InputObjects == Reachable(heap, {root.n})

\* the pairs <<original, decoded>> found by following the same paths from
\* the root and from the decoded value
RootPairs == Corresponding(heap, {<<root.n, result.v.n>>})

\* the number of places (root, fields, elements) of the input holding object a
Places(a) ==
  (IF root.n = a THEN 1 ELSE 0)
    + SumSeq([b \in 1..Len(heap) |->
        IF b \in InputObjects
          THEN Cardinality({i \in 1..Len(heap[b].vals) : heap[b].vals[i] = Obj(a)})
        ELSE 0])

\* an object of the input stands in two places, and the round trip is done
SharedIdentityCase ==
  /\ RoundTripDone
  /\ \E a \in InputObjects : Places(a) >= 2

\* C1: once serialize and deserialize of a graph rooted at a plain mapping
\* or sequence are done, deserialize returned an object, every path that
\* leads to an object in the original leads to an object in the decoded
\* value, and all paths that lead to one original object lead to one single
\* decoded object.
SharedIdentity ==
  SharedIdentityCase =>
    /\ RoundTripReturned
    /\ \A f \in Followed(heap, RootPairs) : f[2].t = "object"
    /\ \A p \in RootPairs : \A q \in RootPairs : p[1] = q[1] => p[2] = q[2]

\* object a reaches itself through one or more fields
OnCycle(h, a) == a \in Reachable(h, Fields(h, a))

\* C2: serialize and deserialize of a graph with a cycle complete without
\* an error, and following from the decoded counterpart of an object on a
\* cycle the fields that lead from the original back to itself leads back
\* to that decoded object.
CycleSafety ==
  /\ (pc \in {"serialized", "done"} /\ \E a \in InputObjects : OnCycle(heap, a))
       => result.err = "none"
  /\ (RoundTripDone /\ \E a \in InputObjects : OnCycle(heap, a)) =>
       /\ RoundTripReturned
       /\ \A p \in RootPairs :
            OnCycle(heap, p[1]) =>
              LET around == Corresponding(heap, FollowedObjects(heap, {p}))
              IN /\ \E q \in around : q[1] = p[1]
                 /\ \A q \in around : q[1] = p[1] => q[2] = p[2]

\* the round trip of a graph with a cycle is done
CycleCase ==
  /\ RoundTripDone
  /\ \E a \in InputObjects : OnCycle(heap, a)

\* no object of the input stands in two places or reaches itself
IsTree == \A a \in InputObjects : Places(a) = 1 /\ ~OnCycle(heap, a)

\* decoded value y deep-equals original value x: the same primitive, or a
\* container of the same kind with the same keys holding deep-equal values
RECURSIVE DeepEquals(_, _, _)
DeepEquals(h, x, y) ==
  IF x.t = "object"
    THEN /\ y.t = "object"
         /\ h[y.n].kind = h[x.n].kind
         /\ Len(h[y.n].vals) = Len(h[x.n].vals)
         /\ EntryKeys(h[y.n]) = EntryKeys(h[x.n])
         /\ \A i \in 1..Len(h[x.n].vals) : DeepEquals(h, h[x.n].vals[i], h[y.n].vals[i])
  ELSE y = x

\* C3: the round trip of a tree of arrays and mappings with primitive
\* leaves returns a value that deep-equals the original.
RoundTripNested ==
  (RoundTripDone /\ IsTree) =>
    /\ result.err = "none"
    /\ DeepEquals(heap, root, result.v)

\* the round trip of a tree with a nested container is done
RoundTripNestedCase ==
  /\ RoundTripDone
  /\ IsTree
  /\ Cardinality(InputObjects) >= 2

\* the round trip of a graph with an empty container is done
EmptyContainersCase ==
  /\ RoundTripDone
  /\ \E a \in InputObjects : heap[a].vals = <<>>

\* C8: an empty array comes back as an array of length 0 and an empty
\* mapping as an empty mapping, at the root and nested.
EmptyContainers ==
  EmptyContainersCase =>
    /\ RoundTripReturned
    /\ \A p \in RootPairs :
         heap[p[1]].vals = <<>> =>
           heap[p[2]].kind = heap[p[1]].kind /\ heap[p[2]].vals = <<>>


---------------------------------------------------------------------------
(* The registry in use: the caller registers implementations of its tags   *)
(* on the standard protocol and has values dispatched to them, by tag and  *)
(* through the wire hash.  Implementation number m writes the byte m and   *)
(* decodes to the number m.                                                *)

TagOrder == <<"t1", "uPString", "toString">>

\* one value of every registered type: getSubProtocolOf names its tag
TaggedValues == [i \in 1..Len(TagOrder) |-> NewObject("object", TagOrder[i])]

\* serde.set(tag, enc, dec, force) with the pair of functions number mark
Set(tag, mark, force) ==
  /\ LET reg == set(Registry, tag, Impl("custom", mark), force)
     IN /\ subprotocols' = reg.subprotocols
        /\ hashes' = reg.hashes
        /\ registered' =
             IF reg.err = "none"
               THEN [registered EXCEPT ![tag] = [mark |-> mark,
                                                 replaced |-> tag \in DOMAIN subprotocols]]
             ELSE registered
        /\ result' = [op |-> "set", err |-> reg.err, v |-> Number(mark),
                      tag |-> tag, force |-> force]
  /\ UNCHANGED <<heap, root, pc, writer, reader, context, dcontext>>

Register == \E tag \in UserTags : \E mark \in 1..MaxMark : \E force \in BOOLEAN :
              Set(tag, mark, force)

\* serde.serializeAs(tag, value)
SerializeByTag ==
  /\ \E i \in 1..Len(TagOrder) :
       LET S == serializeAs(Registry, NewSerializeContext(heap), TagOrder[i], Obj(i))
       IN /\ root' = Obj(i)
          /\ writer' = Compress(S.w)
          /\ context' = ContextOf(S)
          /\ result' = [Returned("serializeAs", S.err, Undef) EXCEPT !.tag = TagOrder[i]]
  /\ pc' = "written"
  /\ UNCHANGED <<subprotocols, hashes, registered, heap, reader, dcontext>>

\* serde.deserializeAs(tag, bytes) of the bytes serializeAs returned
DeserializeByTag ==
  /\ pc = "written"
  /\ result.op = "serializeAs"
  /\ result.err = "none"
  /\ LET x == deserializeAs(Registry, NewDeserializeContext(heap, writer.data), result.tag)
     IN /\ reader' = x.D.r
        /\ result' = [Returned("deserializeAs", x.D.err, x.v) EXCEPT !.tag = result.tag]
  /\ pc' = "idle"
  /\ UNCHANGED <<subprotocols, hashes, registered, heap, root, writer, context, dcontext>>

\* serde.serialize(value): the tag is found by getSubProtocolOf and its hash written
SerializeByType ==
  /\ \E i \in 1..Len(TagOrder) :
       LET S == serialize(Registry, NewSerializeContext(heap), Obj(i))
       IN /\ root' = Obj(i)
          /\ writer' = S.w
          /\ context' = ContextOf(S)
          /\ result' = [Returned("serialize", S.err, Undef) EXCEPT !.tag = TagOrder[i]]
  /\ pc' = "written"
  /\ UNCHANGED <<subprotocols, hashes, registered, heap, reader, dcontext>>

\* serde.deserialize(bytes) of the bytes serialize returned: the tag is found by the hash
DeserializeByHash ==
  /\ pc = "written"
  /\ result.op = "serialize"
  /\ result.err = "none"
  /\ LET x == deserialize(Registry, NewDeserializeContext(heap, writer.data))
     IN /\ reader' = x.D.r
        /\ result' = [Returned("deserialize", x.D.err, x.v) EXCEPT !.tag = result.tag]
  /\ pc' = "idle"
  /\ UNCHANGED <<subprotocols, hashes, registered, heap, root, writer, context, dcontext>>

InitRegistry ==
  /\ subprotocols = standard.subprotocols
  /\ hashes = standard.hashes
  /\ registered = NothingRegistered
  /\ heap = TaggedValues
  /\ root = Undef
  /\ pc = "idle"
  /\ writer = NewWriter
  /\ reader = NewReader(<<>>)
  /\ result = NoResult
  /\ context = NoContext
  /\ dcontext = NoDeserializeContext

\* serde.deserializeAs(tag, bytes) of bytes received from a peer that has an
\* implementation of the tag: the byte its encoder wrote
ReceiveByTag ==
  /\ \E tag \in UserTags :
       LET bytes == Compress(WriteByte(NewWriter, 1))
           x == deserializeAs(Registry, NewDeserializeContext(heap, bytes.data), tag)
       IN /\ writer' = bytes
          /\ reader' = x.D.r
          /\ result' = [Returned("deserializeAs", x.D.err, x.v) EXCEPT !.tag = tag]
  /\ root' = Undef
  /\ pc' = "idle"
  /\ UNCHANGED <<subprotocols, hashes, registered, heap, context, dcontext>>

\* serde.deserialize(bytes) of bytes received from a peer that has an
\* implementation of the tag: the hash of the tag and the byte its encoder wrote
ReceiveByHash ==
  /\ \E tag \in UserTags :
       LET bytes == Compress(WriteByte(WriteUInt32(NewWriter, hash(tag)), 1))
           x == deserialize(Registry, NewDeserializeContext(heap, bytes.data))
       IN /\ writer' = bytes
          /\ reader' = x.D.r
          /\ result' = [Returned("deserialize", x.D.err, x.v) EXCEPT !.tag = tag]
  /\ root' = Undef
  /\ pc' = "idle"
  /\ UNCHANGED <<subprotocols, hashes, registered, heap, context, dcontext>>

NextRegistry ==
  \/ Register
  \/ SerializeByTag
  \/ DeserializeByTag
  \/ SerializeByType
  \/ DeserializeByHash

SpecRegistry == InitRegistry /\ [][NextRegistry]_vars

\* a caller that registers types, serializes by tag and decodes what peers sent
NextDispatch ==
  \/ Register
  \/ SerializeByTag
  \/ ReceiveByTag
  \/ ReceiveByHash

SpecDispatch == InitRegistry /\ [][NextDispatch]_vars

\* tag is registered: the program holds an implementation of it
Registered(tag) == tag \in DOMAIN subprotocols

\* the step is a call of set: result' tells its tag, its functions and force
SetCalled == result'.op = "set" /\ Set(result'.tag, result'.v.n, result'.force)

\* C5: registering a registered tag again without force fails with
\* DuplicateTag and changes nothing; with force it succeeds; and every
\* dispatch, by tag or through the wire hash, runs the functions of the
\* last successful registration of the tag: the encoder writes their
\* number, the decoder returns it.
TagUniqueness ==
  [][/\ (SetCalled /\ Registered(result'.tag)) =>
          IF result'.force
            THEN /\ result'.err = "none"
                 /\ subprotocols'[result'.tag] = Impl("custom", result'.v.n)
                 /\ hashes'[hash(result'.tag)] = result'.tag
          ELSE /\ result'.err = "DuplicateTag"
               /\ UNCHANGED <<subprotocols, hashes>>
     /\ (result'.op \in {"serializeAs", "serialize"} /\ registered'[result'.tag].mark # 0) =>
          /\ result'.err = "none"
          /\ writer'.data[Len(writer'.data)] = registered'[result'.tag].mark
     /\ (result'.op \in {"deserializeAs", "deserialize"}
           /\ registered'[result'.tag].mark # 0) =>
          /\ result'.err = "none"
          /\ result'.v = Number(registered'[result'.tag].mark)
    ]_vars

\* a value was dispatched through the wire hash to a replaced implementation
TagUniquenessCase ==
  /\ result.op = "deserialize"
  /\ result.err = "none"
  /\ registered[result.tag].replaced

\* C6: registering a tag whose hash is the hash of a different registered
\* tag fails with HashCollision, with and without force, and changes
\* nothing; a registration that succeeds on an occupied hash is a forced
\* one of the tag that holds the hash.
HashCollisionRejection ==
  [][(SetCalled /\ hash(result'.tag) \in DOMAIN hashes) =>
       IF hashes[hash(result'.tag)] # result'.tag
         THEN /\ result'.err = "HashCollision"
              /\ UNCHANGED <<subprotocols, hashes>>
       ELSE result'.err = "none" => result'.force
    ]_vars

\* C11: serializeAs and deserializeAs of a tag that is not registered fail
\* with UnknownTag, and deserialize of bytes that begin with the hash of no
\* registered tag fails with UnknownTagHash; no encoder has written a byte
\* and no decoder has read one.
UnknownDispatch ==
  /\ (result.op = "serializeAs" /\ ~Registered(result.tag)) =>
       /\ result.err = "UnknownTag"
       /\ writer.data = <<>>
  /\ (result.op = "deserializeAs" /\ ~Registered(result.tag)) =>
       /\ result.err = "UnknownTag"
       /\ reader.cursor = 0
  /\ (result.op = "deserialize" /\ hash(result.tag) \notin DOMAIN hashes) =>
       /\ result.err = "UnknownTagHash"
       /\ reader.cursor = 4

\* a tag that is not registered was dispatched to while another tag is
UnknownDispatchCase ==
  /\ result.op \in {"serializeAs", "deserializeAs"}
  /\ ~Registered(result.tag)
  /\ \E t \in UserTags : Registered(t)

---------------------------------------------------------------------------
(* Properties of the 'bigint' and 'string' subprotocols *)

\* C9: what readBigint returns from the bytes writeBigint wrote is the
\* big integer written, whatever its sign and the number of its magnitude
\* bytes, and the read ends where the written bytes end.
BigintRoundTrip ==
  (pc = "read" /\ root.t = "bigint") =>
    /\ result.err = "none"
    /\ result.v = root
    /\ reader.cursor = Len(writer.data)

\* a big integer of more than one magnitude byte was written and read
BigintRoundTripCase ==
  /\ pc = "read"
  /\ root.t = "bigint"
  /\ Len(root.s) > 1

\* C10: the 'string' subprotocol writes the number of UTF-8 bytes of the
\* string as 4 little-endian bytes and then those bytes; reading them back
\* returns the string and ends where the written bytes end.
StringLayout ==
  /\ (pc \in {"written", "read"} /\ root.t = "string") =>
       writer.data = U32LE(Len(encode(root.s))) \o encode(root.s)
  /\ (pc = "read" /\ root.t = "string") =>
       /\ result.err = "none"
       /\ result.v = root
       /\ reader.cursor = Len(writer.data)

\* a string was written and read
StringLayoutCase ==
  /\ pc = "read"
  /\ root.t = "string"
  /\ Len(root.s) > 0

---------------------------------------------------------------------------
(* Value graphs with objects of registered types: data-objects and         *)
(* instances of a derive'd type                                            *)

\* the protocol of the caller: the standard one and derive(DerivedTag, filter, rebuild)
WithDerived == setSimple(standard, DerivedTag, 1, FALSE)

\* the caller stores a new data-object or a new instance of the derive'd type
AddTagged ==
  /\ pc = "build"
  /\ Edges(heap) < MaxEdges
  /\ Len(heap) < MaxObjs
  /\ \E a \in 1..Len(heap) :
       \E tag \in {"data-object", DerivedTag} :
         heap' = Append([heap EXCEPT ![a] = Push(@, Obj(Len(heap) + 1))],
                        NewObject("object", tag))
  /\ UNCHANGED <<subprotocols, hashes, registered, root, pc, writer, reader, result, context,
               dcontext>>

InitTagged ==
  /\ subprotocols = WithDerived.subprotocols
  /\ hashes = WithDerived.hashes
  /\ registered = NothingRegistered
  /\ \E tag \in {"", "data-object", DerivedTag} : heap = <<NewObject("object", tag)>>
  /\ root = Obj(1)
  /\ pc = "build"
  /\ writer = NewWriter
  /\ reader = NewReader(<<>>)
  /\ result = NoResult
  /\ context = NoContext
  /\ dcontext = NoDeserializeContext

NextTagged == AddValue \/ AddObject \/ AddTagged \/ Serialize \/ Deserialize

SpecTagged == InitTagged /\ [][NextTagged]_vars

\* C4: when the top-level deserialize returns a value, no Reference
\* placeholder is the value itself or a field of an object reachable from it.
NoOrphanPlaceholders ==
  (pc = "done" /\ result.err = "none") =>
    /\ result.v.t # "reference"
    /\ ~HoldsReference(heap, result.v)

\* the top-level deserialize returned a graph of more than one object
NoOrphanPlaceholdersCase ==
  /\ pc = "done"
  /\ result.err = "none"
  /\ result.v.t = "object"
  /\ Cardinality(Reachable(heap, {result.v.n})) >= 2

\* the value has the fields of rebuild(filter(v)), each with the value of v
\* or its decoded counterpart
DerivedEquals(h, v, y) ==
  LET expected == rebuild(filter(h[v.n]))
  IN /\ y.t = "object"
     /\ h[y.n].tag = DerivedTag
     /\ h[y.n].keys = expected.keys
     /\ \A i \in 1..Len(expected.vals) :
          IF expected.vals[i].t = "object" THEN h[y.n].vals[i].t = "object"
          ELSE h[y.n].vals[i] = expected.vals[i]

\* C7: the round trip of an instance v of the derive'd type returns
\* rebuild(filter(v)): the projected fields hold what they hold in v, and
\* the enrichment field holds what rebuild sets.
DerivedRoundTrip ==
  (pc = "done" /\ heap[root.n].tag = DerivedTag) =>
    /\ result.err = "none"
    /\ DerivedEquals(heap, root, result.v)

\* the round trip of an instance holding the enrichment field is done
DerivedRoundTripCase ==
  /\ pc = "done"
  /\ heap[root.n].tag = DerivedTag
  /\ Len(heap[root.n].vals) >= 2

---------------------------------------------------------------------------
(* Properties of getSubProtocolOf *)

\* the tag an object without a [SERDE] property is to be classified with
TagOfKind(o) == IF o.kind = "array" THEN "array" ELSE "object"

\* C12: getSubProtocolOf returns "array" for every array without a [SERDE]
\* property and "object" only for plain mappings: serialize(root) begins
\* with the hash of that tag, and so it is for every object of the graph.
ClassifiesArrays ==
  /\ pc \in {"serialized", "done"} =>
       SubSeq(writer.data, 1, 4) = U32LE(hash(TagOfKind(heap[root.n])))
  /\ \A a \in 1..Len(heap) :
       heap[a].tag = "" =>
         getSubProtocolOf(heap, Obj(a)) = [tag |-> TagOfKind(heap[a]), err |-> "none"]

\* an array of some elements was serialized
ClassifiesArraysCase ==
  /\ pc = "serialized"
  /\ heap[root.n].kind = "array"
  /\ Len(heap[root.n].vals) >= 1

\* the caller stores a new instance of a class of its own, without a [SERDE]
\* property, in an object
AddInstance ==
  /\ pc = "build"
  /\ Edges(heap) < MaxEdges
  /\ Len(heap) < MaxObjs
  /\ \E a \in 1..Len(heap) :
       heap' = Append([heap EXCEPT ![a] = Push(@, Obj(Len(heap) + 1))],
                      NewObject("instance", ""))
  /\ UNCHANGED <<subprotocols, hashes, registered, root, pc, writer, reader, result, context,
               dcontext>>

InitCustom ==
  /\ subprotocols = standard.subprotocols
  /\ hashes = standard.hashes
  /\ registered = NothingRegistered
  /\ \E kind \in {"array", "object", "instance"} : heap = <<NewObject(kind, "")>>
  /\ root = Obj(1)
  /\ pc = "build"
  /\ writer = NewWriter
  /\ reader = NewReader(<<>>)
  /\ result = NoResult
  /\ context = NoContext
  /\ dcontext = NoDeserializeContext

NextCustom == AddValue \/ AddObject \/ AddInstance \/ Serialize \/ Deserialize

\* value graphs with instances of classes that have no [SERDE] property
SpecCustom == InitCustom /\ [][NextCustom]_vars

\* an instance of a class without a [SERDE] property is in the graph of root
HoldsUntagged ==
  \E a \in Reachable(heap, {root.n}) : heap[a].kind = "instance" /\ heap[a].tag = ""

\* C13: getSubProtocolOf fails with UntaggedCustomType for an instance of a
\* class that has no [SERDE] property, so serialize of a graph holding one
\* fails with it and writes no 'object' body for the instance.
UntaggedRejected ==
  /\ \A a \in 1..Len(heap) :
       (heap[a].kind = "instance" /\ heap[a].tag = "") =>
         getSubProtocolOf(heap, Obj(a)).err = "UntaggedCustomType"
  /\ (pc = "serialized" /\ HoldsUntagged) => result.err = "UntaggedCustomType"

\* serialize of a graph holding an instance without a [SERDE] property returned
UntaggedRejectedCase ==
  /\ pc = "serialized"
  /\ HoldsUntagged
  /\ heap[root.n].kind # "instance"

---------------------------------------------------------------------------
(* Bytes from elsewhere: the reference table of a graph of plain objects,  *)
(* with one reference id other than the one serialize wrote                *)

\* the caller stores an object it already has in an object
AddReference ==
  /\ pc = "build"
  /\ Edges(heap) < MaxEdges
  /\ \E a \in 1..Len(heap) : \E b \in 1..Len(heap) :
       heap' = [heap EXCEPT ![a] = Push(@, Obj(b))]
  /\ UNCHANGED <<subprotocols, hashes, registered, root, pc, writer, reader, result, context,
               dcontext>>

\* where the bytes hold the low byte of a reference id: the id of a
\* Reference follows the hash of 'reference', the id of a table entry is
\* followed by the hash of 'object'
IdPositions(data) ==
  {i \in 1..Len(data) :
     \/ i > 4 /\ SubSeq(data, i - 4, i - 1) = U32LE(hash("reference"))
     \/ i > 9 /\ i + 7 <= Len(data) /\ SubSeq(data, i + 4, i + 7) = U32LE(hash("object"))}

\* the bytes reach the reader with one reference id replaced, by the id of
\* the root or by an id serialize has not assigned
Tamper ==
  /\ pc = "serialized"
  /\ result.op = "serialize"
  /\ result.err = "none"
  /\ \E i \in IdPositions(writer.data) : \E id \in {0, MaxObjs} :
       /\ writer.data[i] # id
       /\ writer' = [writer EXCEPT !.data[i] = id]
  /\ result' = [result EXCEPT !.op = "receive"]
  /\ UNCHANGED <<subprotocols, hashes, registered, heap, root, pc, reader, context, dcontext>>

NextWire == AddReference \/ AddObject \/ Serialize \/ Tamper \/ Deserialize

\* graphs of plain arrays and mappings, their bytes altered on the way
SpecWire == InitGraph /\ [][NextWire]_vars

\* readReferences up to the end of its first loop, on the bytes of a root
\* table: the hash of 'object' and the flags byte are read already
TableRead ==
  LET D == [NewDeserializeContext(heap, writer.data) EXCEPT !.r.cursor = 5]
      count == Read(D, ReadUInt32(D.r))
  IN ReadReferencesLoop(Registry, count.D, 0, count.v, <<>>)

\* all entries are read and a pending substitution has the id of no entry
Dangling ==
  /\ TableRead.D.err = "none"
  /\ \E i \in 1..Len(TableRead.D.refs) : TableRead.D.refs[i].id \notin DOMAIN TableRead.v

\* C14: when readReferences has read all table entries and a pending
\* substitution of the context has a reference id that is the id of no
\* table entry, deserialize fails with DanglingReferenceId and returns no
\* value.
DanglingDetected ==
  [][(pc = "serialized" /\ pc' = "done" /\ Dangling) =>
       /\ result'.err = "DanglingReferenceId"
       /\ result'.v = Undef
    ]_vars

\* bytes with a Reference to an id of no table entry were deserialized,
\* after a substitution that found its entry
DanglingDetectedCase ==
  /\ pc = "done"
  /\ result.err = "DanglingReferenceId"
  /\ \E a \in 1..Len(heap) : \E i \in 1..Len(heap[a].vals) :
       heap[a].vals[i].t = "reference"

---------------------------------------------------------------------------
(* Properties of derive'd types inside a graph *)

\* an instance of the derive'd type whose projection holds an object is in
\* the graph of root
HoldsDerivedComposite ==
  \E a \in Reachable(heap, {root.n}) :
    /\ heap[a].tag = DerivedTag
    /\ \E i \in 1..Len(filter(heap[a]).vals) : filter(heap[a]).vals[i].t = "object"

\* C15: when an instance of the derive'd type whose projection holds
\* objects is the root or nested in the graph, the round trip does not fail
\* with UnresolvedReference, and no field of a rebuilt instance in the
\* returned graph holds a Reference placeholder.
DerivedResolution ==
  (pc = "done" /\ HoldsDerivedComposite) =>
    /\ result.err # "UnresolvedReference"
    /\ (result.err = "none" /\ result.v.t = "object") =>
         \A a \in Reachable(heap, {result.v.n}) :
           heap[a].tag = DerivedTag =>
             \A i \in 1..Len(heap[a].vals) : heap[a].vals[i].t # "reference"

\* the round trip of a graph with a nested instance holding an object is done
DerivedResolutionCase ==
  /\ pc = "done"
  /\ HoldsDerivedComposite
  /\ heap[root.n].tag = ""

---------------------------------------------------------------------------
(* The reference table writer on graphs of objects alone: plain arrays and *)
(* mappings, nested, shared and cyclic.  The properties are on the steps   *)
(* of the serialize call.                                                  *)

NextTable == AddReference \/ AddObject \/ Serialize

SpecTable == InitGraph /\ [][NextTable]_vars

\* the positions in the log of the steps named e
Steps(e) == {k \in 1..Len(context.log) : context.log[k].e = e}

\* the position of the "table" step of the writeReferences call that the
\* "count" step at k ends
TableOf(k) == CHOOSE t \in Steps("table") : t < k /\ \A u \in Steps("table") : u < k => u <= t

\* the table entries written by the writeReferences call that ends at k
FlushedBy(k) == {j \in Steps("flush") : TableOf(k) < j /\ j < k}

\* C16: when writeReferences has returned, the 4 bytes at the table header
\* hold the number of (reference id, value) pairs written after it.
TableCount ==
  \A k \in Steps("count") :
    /\ context.log[k].n = Cardinality(FlushedBy(k))
    /\ SubSeq(writer.data, context.log[TableOf(k)].n + 1, context.log[TableOf(k)].n + 4)
         = U32LE(Cardinality(FlushedBy(k)))

\* a table was written in which the entry of one object made another known
TableCountCase ==
  /\ pc = "serialized"
  /\ \E k \in Steps("count") :
       \E j \in FlushedBy(k) : \E m \in 1..Len(context.log) :
         /\ j < m
         /\ context.log[m].e = "entry"
         /\ context.log[m].v.t = "reference"
         /\ \A f \in FlushedBy(k) : f <= m => context.log[f].n # context.log[m].v.n

\* C17: when writeReferences returns, every identity ctx.refs holds, the
\* ones found while an entry was being flushed included, has been written
\* as a table entry exactly once, with its reference id, and no reference
\* id is in two table entries.
WorklistComplete ==
  \A k \in Steps("count") :
    /\ \A i \in 1..context.log[k].n :
         \E j \in FlushedBy(k) :
           /\ context.log[j].obj = context.refs[i].obj
           /\ context.log[j].n = context.refs[i].id
           /\ \A m \in FlushedBy(k) : context.log[m].obj = context.refs[i].obj => m = j
    /\ \A j \in FlushedBy(k) : \A m \in FlushedBy(k) :
         context.log[j].n = context.log[m].n => j = m

\* a table was written with an entry for an identity found during the
\* flush of an entry other than the first
WorklistCompleteCase ==
  /\ pc = "serialized"
  /\ \E k \in Steps("count") : \E j \in FlushedBy(k) : \E m \in FlushedBy(k) :
       /\ context.log[j].n # 0
       /\ j < m
       /\ \E e \in Steps("entry") :
            /\ j < e /\ e < m
            /\ context.log[e].v = Reference(context.log[m].n)
            /\ \A d \in Steps("entry") : d < j => context.log[d].v # context.log[e].v

---------------------------------------------------------------------------
(* One SerializeContext and the calls of its ref method *)

\* what the caller passes to ctx.ref: primitives, falsy ones among them, and
\* the objects of the heap
RefArguments ==
  Leaves \cup {Bool(FALSE), Str(<<>>), Number(0)} \cup {Obj(a) : a \in 1..Len(heap)}

\* ctx.ref(value)
RefCall ==
  /\ \E value \in RefArguments :
       LET S == [NewSerializeContext(heap) EXCEPT !.refs = context.refs,
                                                  !.nextId = context.nextId]
           r == ref(S, value)
       IN /\ root' = value
          /\ context' = ContextOf(r.S)
          /\ result' = Returned("ref", "none", r.v)
  /\ UNCHANGED <<subprotocols, hashes, registered, heap, pc, writer, reader, dcontext>>

\* ctx = new SerializeContext(serde): refs empty, nextId 0
InitContext ==
  /\ subprotocols = standard.subprotocols
  /\ hashes = standard.hashes
  /\ registered = NothingRegistered
  /\ heap = [a \in 1..(MaxObjs + 1) |-> NewObject(IF a = 1 THEN "array" ELSE "object", "")]
  /\ root = Undef
  /\ pc = "idle"
  /\ writer = NewWriter
  /\ reader = NewReader(<<>>)
  /\ result = NoResult
  /\ context = NoContext
  /\ dcontext = NoDeserializeContext

NextContext == RefCall

SpecContext == InitContext /\ [][NextContext]_vars

\* the position of the identity obj in refs, 0 when it has none
SeenAt(refs, obj) ==
  IF \E i \in 1..Len(refs) : refs[i].obj = obj
    THEN CHOOSE i \in 1..Len(refs) : refs[i].obj = obj
  ELSE 0

\* C18: after every ctx.ref call on a SerializeContext made with default
\* arguments, no identity is registered twice, the ids are 0..n-1 in the
\* order the identities were first seen, nextId is the number of
\* identities, and no registered identity has changed its id; ref of a
\* seen object returns its Reference and registers nothing, ref of a new
\* object registers it with the next id, and ref of a primitive, null or
\* undefined returns the value and registers nothing.
RefAssignment ==
  [][result'.op = "ref" =>
       /\ \A i \in 1..Len(context'.refs) :
            /\ context'.refs[i].id = i - 1
            /\ \A j \in 1..Len(context'.refs) :
                 context'.refs[i].obj = context'.refs[j].obj => i = j
       /\ context'.nextId = Len(context'.refs)
       /\ \A i \in 1..Len(context.refs) : context'.refs[i] = context.refs[i]
       /\ IF root'.t # "object"
            THEN result'.v = root' /\ context' = context
          ELSE IF SeenAt(context.refs, root') # 0
            THEN /\ result'.v = Reference(context.refs[SeenAt(context.refs, root')].id)
                 /\ context' = context
          ELSE /\ result'.v = Reference(context.nextId)
               /\ context'.refs = Append(context.refs, [obj |-> root', id |-> context.nextId])
    ]_vars

\* ref of the object seen first returned its Reference after other objects
\* were registered
RefAssignmentCase ==
  /\ result.op = "ref"
  /\ Len(context.refs) >= 3
  /\ root = context.refs[1].obj
  /\ result.v = Reference(0)

\* the Reference ctx.refs holds for the object obj
ReferenceOf(obj) == Reference(context.refs[SeenAt(context.refs, obj)].id)

\* C19: serializeObject sets the root flag of an object if and only if
\* ctx.refs is empty when it is entered; so one serialize call with a fresh
\* context writes at most one flags byte with the root bit and at most one
\* reference table, and every other object body is written nested, each
\* element or field that is an object replaced by its Reference and every
\* other one written as it is.
SingleRoot ==
  /\ \A k \in Steps("root") : context.log[k].n = 0
  /\ \A k \in Steps("nested") : context.log[k].n > 0
  /\ Cardinality(Steps("root")) <= 1
  /\ Cardinality(Steps("table")) <= 1
  /\ \A k \in Steps("entry") :
       LET held == heap[context.log[k].obj.n].vals[context.log[k].n]
       IN /\ \E f \in Steps("nested") : f < k /\ context.log[f].obj = context.log[k].obj
          /\ context.log[k].v = IF held.t = "object" THEN ReferenceOf(held) ELSE held

\* a graph of three objects was serialized: one as the root, the bodies of
\* all three nested
SingleRootCase ==
  /\ pc = "serialized"
  /\ Cardinality(Steps("root")) = 1
  /\ Cardinality({context.log[k].obj : k \in Steps("nested")}) >= 3

---------------------------------------------------------------------------
(* serialize of a graph of plain arrays and mappings, one iteration of the *)
(* loop of writeReferences at a time                                       *)

\* the state of the running serialize call
Running ==
  [w |-> writer, refs |-> context.refs, nextId |-> context.nextId, heap |-> heap,
   err |-> "none", depth |-> 0, log |-> context.log]

\* the Set written of writeReferences: the objects of the entries flushed
Written == {context.log[k].obj : k \in Steps("flush")}

\* serialize(root) up to the loop of writeReferences: the hash of 'object',
\* ctx.ref(root), the flags byte and the placeholder of the count
OpenTable ==
  /\ pc = "build"
  /\ LET S0 == NewSerializeContext(heap)
         S1 == [S0 EXCEPT !.w = WriteUInt32(S0.w, hash(getSubProtocolOf(heap, root).tag))]
         S2 == ref(S1, root).S
         S3 == Logged([S2 EXCEPT !.w = WriteFlags(S2.w, <<Len(S1.refs) = 0,
                                                         isArrayLike(heap[root.n])>>)],
                      Event("root", root, Len(S1.refs), Undef))
         S4 == Logged([S3 EXCEPT !.w = WriteUInt32(S3.w, 0)],
                      Event("table", Undef, Tell(S3.w), Undef))
     IN /\ writer' = S4.w
        /\ context' = ContextOf(S4)
  /\ pc' = "flushing"
  /\ UNCHANGED <<subprotocols, hashes, registered, heap, root, reader, result, dcontext>>

\* one iteration of the loop: the next entry that is not written is flushed
Flush ==
  /\ pc = "flushing"
  /\ find(context.refs, Written) # 0
  /\ LET next == context.refs[find(context.refs, Written)]
         S1 == Logged([Running EXCEPT !.w = WriteUInt32(writer, next.id)],
                      Event("flush", next.obj, next.id, Undef))
         S2 == serialize(Registry, S1, next.obj)
     IN /\ writer' = S2.w
        /\ context' = ContextOf(S2)
  /\ UNCHANGED <<subprotocols, hashes, registered, heap, root, pc, reader, result, dcontext>>

\* no entry is left: the count is written into the placeholder and serialize returns
CloseTable ==
  /\ pc = "flushing"
  /\ find(context.refs, Written) = 0
  /\ LET cursorStart == context.log[CHOOSE t \in Steps("table") : TRUE].n
         cursorEnd == Tell(writer)
         S1 == Logged([Running EXCEPT
                         !.w = Seek(WriteUInt32(Seek(writer, cursorStart), Len(context.refs)),
                                    cursorEnd)],
                      Event("count", Undef, Len(context.refs), Undef))
     IN /\ writer' = Compress(S1.w)
        /\ context' = ContextOf(S1)
  /\ pc' = "serialized"
  /\ result' = Returned("serialize", "none", Undef)
  /\ UNCHANGED <<subprotocols, hashes, registered, heap, root, reader, dcontext>>

NextFlush == AddReference \/ AddObject \/ OpenTable \/ Flush \/ CloseTable

SpecFlush == InitGraph /\ [][NextFlush]_vars

\* A call that has begun takes its next step: JavaScript runs it to
\* completion.  This is weak fairness of the steps of the running call.
FlushFairness == WF_vars(Flush \/ CloseTable)

\* SpecFlush under FlushFairness, with the fairness condition written out:
\* WF_vars(A) is []<>~ENABLED <<A>>_vars \/ []<><<A>>_vars, and a step of
\* Flush \/ CloseTable is enabled exactly while pc = "flushing" (find returns
\* an entry or none, Flush adds to the log and CloseTable changes pc).
FairFlush ==
  SpecFlush /\ ([]<>(pc # "flushing") \/ []<><<Flush \/ CloseTable>>_vars)

\* C20: serialize of a graph of plain arrays and mappings, cyclic and
\* shared ones included, terminates: the loop of writeReferences flushes no
\* identity twice, and when it has made one iteration for every identity of
\* ctx.refs the call returns.
EncodingTerminates ==
  /\ [](\A j \in Steps("flush") : \A k \in Steps("flush") :
          context.log[j].obj = context.log[k].obj => j = k)
  /\ [](pc = "serialized" =>
          /\ Cardinality(Steps("flush")) = Len(context.refs)
          /\ Written = {context.refs[i].obj : i \in 1..Len(context.refs)})
  /\ (pc = "flushing") ~> (pc = "serialized")

\* serialize of a graph in which an object reaches itself through another
\* has returned
EncodingTerminatesCase ==
  /\ pc = "serialized"
  /\ Cardinality(Steps("flush")) >= 2
  /\ \E a \in 1..Len(heap) : \E b \in Fields(heap, a) : a # b /\ a \in Fields(heap, b)

---------------------------------------------------------------------------
(* deserialize calls of one caller, on the bytes of a graph of plain       *)
(* arrays and mappings: each call is given a new DeserializeContext or the *)
(* one the caller kept from its last call                                  *)

\* serde.deserialize(new Reader(bytes), ctx): ctx is new DeserializeContext(serde)
\* when fresh, and the context of the last call otherwise
DeserializeWith ==
  /\ pc \in {"serialized", "done"}
  /\ result.err = "none"
  /\ Len(dcontext.calls) < MaxCalls
  /\ \E fresh \in BOOLEAN :
       LET new == NewDeserializeContext(heap, writer.data)
           ctx == IF fresh THEN new
                  ELSE [new EXCEPT !.refs = dcontext.refs, !.log = dcontext.log]
           x == deserialize(Registry, ctx)
       IN /\ reader' = x.D.r
          /\ heap' = x.D.heap
          /\ result' = Returned("deserialize", x.D.err, x.v)
          /\ dcontext' = KeptContext(x.D, Append(dcontext.calls, Len(heap)))
  /\ pc' = "done"
  /\ UNCHANGED <<subprotocols, hashes, registered, root, writer, context>>

NextKept == AddReference \/ AddObject \/ Serialize \/ DeserializeWith

SpecKept == InitGraph /\ [][NextKept]_vars

\* the call that made object a: the last one that began with a heap too small for a
CallOf(a) ==
  CHOOSE k \in 0..Len(dcontext.calls) :
    /\ k > 0 => dcontext.calls[k] < a
    /\ \A j \in (k + 1)..Len(dcontext.calls) : dcontext.calls[j] >= a

\* the calls of the substitute callback of the DeReference at position i of ctx.refs
CallsOf(i) == {k \in 1..Len(dcontext.log) : dcontext.log[k].ref = i}

\* C21: when a deserialize call has returned, whether it was given a new
\* DeserializeContext or the one of the calls before it, the callback of
\* every pending substitution of the context has been called exactly once,
\* with an object decoded from the payload whose decoding registered it.
SubstitutedOnce ==
  (result.op = "deserialize" /\ result.err = "none") =>
    \A i \in 1..Len(dcontext.refs) :
      /\ Cardinality(CallsOf(i)) = 1
      /\ \A k \in CallsOf(i) :
           /\ dcontext.log[k].obj.t = "object"
           /\ CallOf(dcontext.log[k].obj.n) = CallOf(dcontext.refs[i].target)

\* a second call was given the context of the first, which held a pending substitution
SubstitutedOnceCase ==
  /\ result.op = "deserialize"
  /\ Len(dcontext.calls) = 2
  /\ \E i \in 1..Len(dcontext.refs) : CallOf(dcontext.refs[i].target) = 1

---------------------------------------------------------------------------
(* deserialize of the bytes of a graph of plain arrays and mappings, one   *)
(* iteration of the loops of readReferences at a time                      *)

\* the state of the running deserialize call
Reading ==
  [r |-> reader, heap |-> heap, refs |-> dcontext.refs, err |-> "none", log |-> dcontext.log]

\* the DeserializeContext and the locals of the running readReferences:
\* objs, count and the number i of entries read
ReadingContext(D, objs, count, i) ==
  [refs |-> D.refs, log |-> D.log, calls |-> <<>>, objs |-> objs, count |-> count, i |-> i]

\* a callback that overwrites every field of the container holding the Reference
substituteEvery(h, r, obj) ==
  [h EXCEPT ![r.target].vals =
     [i \in 1..Len(@) |-> IF @[i] = h[r.target].vals[r.pos] THEN obj ELSE @[i]]]

\* the substitute callback of deserializeObject: obj => { result[key] = obj }
substitute(h, r, obj) == [h EXCEPT ![r.target].vals[r.pos] = obj]

\* deserialize(bytes) up to the first loop of readReferences: the hash, the
\* flags byte of a root and the count of the table
OpenRead ==
  /\ pc = "serialized"
  /\ result.err = "none"
  /\ LET D0 == NewDeserializeContext(heap, writer.data)
         hashed == Read(D0, ReadUInt32(D0.r))
         flags == Read(hashed.D, ReadFlags(hashed.D.r))
         count == Read(flags.D, ReadUInt32(flags.D.r))
     IN /\ hashed.v \in DOMAIN hashes
        /\ subprotocols[hashes[hashed.v]].kind = "object"
        /\ flags.v[1]
        /\ reader' = count.D.r
        /\ dcontext' = ReadingContext(count.D, <<>>, count.v, 0)
  /\ pc' = "reading"
  /\ result' = Returned("table", "none", Undef)
  /\ UNCHANGED <<subprotocols, hashes, registered, heap, root, writer, context>>

\* one iteration of the first loop: the id and the value of the next entry are read
ReadEntry ==
  /\ pc = "reading"
  /\ Below(dcontext.i, dcontext.count)
  /\ LET refid == Read(Reading, ReadUInt32(reader))
         obj == deserialize(Registry, refid.D)
     IN /\ reader' = obj.D.r
        /\ heap' = obj.D.heap
        /\ dcontext' = ReadingContext(obj.D, Put(dcontext.objs, refid.v, obj.v),
                                      dcontext.count, dcontext.i + 1)
        /\ result' = Returned("entry", obj.D.err, obj.v)
        /\ pc' = IF obj.D.err = "none" THEN "reading" ELSE "done"
  /\ UNCHANGED <<subprotocols, hashes, registered, root, writer, context>>

\* one iteration of the second loop: the next DeReference of ctx.refs is substituted
SubstituteNext ==
  /\ pc = "reading"
  /\ ~Below(dcontext.i, dcontext.count)
  /\ Len(dcontext.log) < Len(dcontext.refs)
  /\ LET r == dcontext.refs[Len(dcontext.log) + 1]
     IN IF r.id \notin DOMAIN dcontext.objs
          THEN /\ result' = Returned("deserialize", "DanglingReferenceId", Undef)
               /\ pc' = "done"
               /\ UNCHANGED <<heap, dcontext>>
        ELSE /\ heap' = substitute(heap, r, dcontext.objs[r.id])
             /\ dcontext' = [dcontext EXCEPT
                               !.log = Append(@, [ref |-> Len(dcontext.log) + 1,
                                                  obj |-> dcontext.objs[r.id]])]
             /\ result' = Returned("substitute", "none", dcontext.objs[r.id])
             /\ pc' = "reading"
  /\ UNCHANGED <<subprotocols, hashes, registered, root, writer, reader, context>>

\* every DeReference is substituted: the sanity check, and deserialize returns objs[0]
CloseRead ==
  /\ pc = "reading"
  /\ ~Below(dcontext.i, dcontext.count)
  /\ Len(dcontext.log) = Len(dcontext.refs)
  /\ LET first == IF 0 \in DOMAIN dcontext.objs THEN dcontext.objs[0] ELSE Undef
     IN result' = IF assertReferenceless(heap, first)
                    THEN Returned("deserialize", "UnresolvedReference", Undef)
                  ELSE Returned("deserialize", "none", first)
  /\ pc' = "done"
  /\ UNCHANGED <<subprotocols, hashes, registered, heap, root, writer, reader, context,
                 dcontext>>

NextRead ==
  \/ AddValue
  \/ AddObject
  \/ Serialize
  \/ OpenRead
  \/ ReadEntry
  \/ SubstituteNext
  \/ CloseRead

SpecRead == InitGraph /\ [][NextRead]_vars

\* the positions of the fields of object a that hold a Reference
ReferenceFields(h, a) == {i \in 1..Len(h[a].vals) : h[a].vals[i].t = "reference"}

\* C22: when a nested composite has been decoded, ctx.refs has gained
\* exactly one pending substitution for each of its fields that holds a
\* Reference, with the id of that Reference, and nothing else; a call of a
\* substitution overwrites that field of that container with the object
\* given and changes no other field and no other object.
PendingPerField ==
  [][/\ (result'.op = "entry" /\ result'.err = "none" /\ result'.v.t = "object") =>
          LET a == result'.v.n
              old == Len(dcontext.refs)
              new == (old + 1)..Len(dcontext'.refs)
          IN /\ SubSeq(dcontext'.refs, 1, old) = dcontext.refs
             /\ Cardinality(new) = Cardinality(ReferenceFields(heap', a))
             /\ \A j \in new :
                  /\ dcontext'.refs[j].target = a
                  /\ dcontext'.refs[j].pos \in ReferenceFields(heap', a)
                  /\ dcontext'.refs[j].id = heap'[a].vals[dcontext'.refs[j].pos].n
                  /\ \A k \in new : dcontext'.refs[k].pos = dcontext'.refs[j].pos => k = j
     /\ result'.op = "substitute" =>
          LET r == dcontext.refs[dcontext'.log[Len(dcontext'.log)].ref]
          IN /\ heap'[r.target].vals[r.pos] = result'.v
             /\ Len(heap') = Len(heap)
             /\ \A a \in 1..Len(heap) :
                  /\ heap'[a].kind = heap[a].kind
                  /\ heap'[a].tag = heap[a].tag
                  /\ heap'[a].keys = heap[a].keys
                  /\ Len(heap'[a].vals) = Len(heap[a].vals)
                  /\ \A i \in 1..Len(heap[a].vals) :
                       (a # r.target \/ i # r.pos) => heap'[a].vals[i] = heap[a].vals[i]
             /\ dcontext'.refs = dcontext.refs
    ]_vars

\* a substitution of a container was called that holds a primitive in one
\* field and a Reference of the same id in two others
PendingPerFieldCase ==
  /\ result.op = "substitute"
  /\ LET r == dcontext.refs[Len(dcontext.log)]
     IN /\ \E i \in 1..Len(heap[r.target].vals) : heap[r.target].vals[i].t = "string"
        /\ \E j \in (Len(dcontext.log) + 1)..Len(dcontext.refs) :
             /\ dcontext.refs[j].target = r.target
             /\ dcontext.refs[j].id = r.id

---------------------------------------------------------------------------
(* Graphs of plain arrays and mappings that hold functions and symbols     *)

\* the caller stores a function or a symbol in an object
AddSkipped ==
  /\ pc = "build"
  /\ Edges(heap) < MaxEdges
  /\ \E a \in 1..Len(heap) : \E v \in {Fn, Sym} :
       heap' = [heap EXCEPT ![a] = Push(@, v)]
  /\ UNCHANGED <<subprotocols, hashes, registered, root, pc, writer, reader, result, context,
                 dcontext>>

NextFilter == AddValue \/ AddObject \/ AddSkipped \/ Serialize

SpecFilter == InitGraph /\ [][NextFilter]_vars

\* the positions of the fields of o that hold neither a function nor a symbol
Retained(o) ==
  SelectSeq([i \in 1..Len(o.vals) |-> i], LAMBDA i : o.vals[i].t \notin {"function", "symbol"})

\* the bytes of the key and of the value of an entry, each as written on its own
EntryBytes(key, v) ==
  serializeAs(Registry, NewSerializeContext(heap), "string", Str(key)).w.data
    \o serialize(Registry, NewSerializeContext(heap), v).w.data

\* a function or a symbol is an element of an array-like object of the graph
SkippedInArray ==
  \E a \in Reachable(heap, {root.n}) :
    isArrayLike(heap[a]) /\ Retained(heap[a]) # [i \in 1..Len(heap[a].vals) |-> i]

\* C23: serialize of a graph whose arrays hold no function and no symbol
\* completes without an error, and for every mapping written in nested form
\* the entries written are those whose value is neither a function nor a
\* symbol, in the order of Object.entries, each as its key followed by its
\* value, after the 4 bytes of their number.
MappingFiltered ==
  (pc = "serialized" /\ ~SkippedInArray) =>
    /\ result.err = "none"
    /\ \A k \in Steps("length") :
         LET o == heap[context.log[k].obj.n]
             kept == Retained(o)
             at == context.log[k].n
             expected ==
               U32LE(Len(kept))
                 \o Concat([j \in 1..Len(kept) |->
                              EntryBytes(EntryKeys(o)[kept[j]], context.log[k + j].v)])
         IN ~isArrayLike(o) =>
              /\ context.log[k].v = Number(Len(kept))
              /\ k + Len(kept) <= Len(context.log)
              /\ \A j \in 1..Len(kept) :
                   /\ context.log[k + j].e = "entry"
                   /\ context.log[k + j].obj = context.log[k].obj
                   /\ context.log[k + j].n = kept[j]
                   /\ context.log[k + j].v =
                        IF o.vals[kept[j]].t = "object" THEN ReferenceOf(o.vals[kept[j]])
                        ELSE o.vals[kept[j]]
              /\ k + Len(kept) < Len(context.log) => context.log[k + Len(kept) + 1].e # "entry"
              /\ SubSeq(writer.data, at + 1, at + Len(expected)) = expected

\* a mapping was written that holds a symbol between two entries that are kept
MappingFilteredCase ==
  /\ pc = "serialized"
  /\ ~SkippedInArray
  /\ \E a \in Reachable(heap, {root.n}) :
       /\ heap[a].kind = "object"
       /\ Len(heap[a].vals) = 3
       /\ heap[a].vals[2] = Sym
       /\ Retained(heap[a]) = <<1, 3>>

---------------------------------------------------------------------------
(* A Writer and its caller, which appends bytes, compresses, and writes a  *)
(* 4-byte placeholder that it overwrites later, as writeReferences does    *)

\* the numbers written as 4 bytes: 1 and 0x04030201
PatchValues == {1, 67305985}

\* writer.writeByte(255), writer.writeUInt32(x) or writer.writeBytes([2, 3])
WriterWrite ==
  /\ pc \in {"writing", "marked"}
  /\ writer.size + 4 <= MaxWritten
  /\ \/ writer' = WriteByte(writer, 255) /\ root' = Number(255)
     \/ \E x \in PatchValues : writer' = WriteUInt32(writer, x) /\ root' = Number(x)
     \/ writer' = WriteBytes(writer, <<2, 3>>) /\ root' = Undef
  /\ UNCHANGED <<subprotocols, hashes, registered, heap, pc, reader, result, context,
                 dcontext>>

\* writer.compress(), as every serialize call ends
WriterCompress ==
  /\ pc \in {"writing", "marked", "patched"}
  /\ writer' = Compress(writer)
  /\ pc' = IF pc = "patched" THEN "writing" ELSE pc
  /\ UNCHANGED <<subprotocols, hashes, registered, heap, root, reader, result, context,
                 dcontext>>

\* p = writer.tell(); writer.writeUInt32(0)
Placeholder ==
  /\ pc \in {"writing", "patched"}
  /\ writer.size + 4 <= MaxWritten
  /\ result' = Returned("tell", "none", Number(Tell(writer)))
  /\ writer' = WriteUInt32(writer, 0)
  /\ root' = Number(0)
  /\ pc' = "marked"
  /\ UNCHANGED <<subprotocols, hashes, registered, heap, reader, context, dcontext>>

\* e = writer.tell(); writer.seek(p); writer.writeUInt32(x); writer.seek(e)
BackPatch ==
  /\ pc = "marked"
  /\ \E x \in PatchValues :
       LET p == result.v.n
           e == Tell(writer)
       IN /\ writer' = Seek(WriteUInt32(Seek(writer, p), x), e)
          /\ root' = Number(x)
  /\ pc' = "patched"
  /\ UNCHANGED <<subprotocols, hashes, registered, heap, reader, result, context, dcontext>>

\* writer = new Writer()
InitWriter ==
  /\ subprotocols = standard.subprotocols
  /\ hashes = standard.hashes
  /\ registered = NothingRegistered
  /\ heap = <<>>
  /\ root = Undef
  /\ pc = "writing"
  /\ writer = NewWriter
  /\ reader = NewReader(<<>>)
  /\ result = NoResult
  /\ context = NoContext
  /\ dcontext = NoDeserializeContext

NextWriter == WriterWrite \/ WriterCompress \/ Placeholder \/ BackPatch

SpecWriter == InitWriter /\ [][NextWriter]_vars

\* C24: writing x over the 4 placeholder bytes at p (seek(p), writeUInt32(x),
\* seek(e) with e the position told before) leaves x little-endian in the
\* bytes p..p+3, every other written byte, the written size and the cursor
\* e as they were, and compress() then leaves a buffer of exactly the e
\* bytes written.
BackPatchFrame ==
  [][(pc = "marked" /\ pc' = "patched") =>
       LET p == result.v.n
           e == writer.cursor
       IN /\ SubSeq(writer'.data, p + 1, p + 4) = U32LE(root'.n)
          /\ Len(writer'.data) = Len(writer.data)
          /\ \A i \in 1..Len(writer.data) :
               (i <= p \/ i > p + 4) => writer'.data[i] = writer.data[i]
          /\ writer'.size = writer.size
          /\ writer'.cursor = e
          /\ Compress(writer').cap = e
          /\ Compress(writer').data = writer'.data
          /\ Len(writer'.data) = e
    ]_vars

\* a placeholder written after other bytes was overwritten, after more bytes
\* and a compress() had followed it
BackPatchFrameCase ==
  /\ pc = "patched"
  /\ result.v.n > 0
  /\ writer.cursor > result.v.n + 4
  /\ writer.cap = writer.size

---------------------------------------------------------------------------
(* Properties of the positions of the Reader after a round trip *)

\* C25: the bytes serialize returns begin with the 4 bytes of the hash of
\* the tag of the value, and deserialize of them returns without an error
\* with the cursor of the reader at their end: every nested value was
\* decoded from the bytes of its own encoding.
ExactConsumption ==
  /\ (pc \in {"serialized", "done"} /\ result.err = "none") =>
       SubSeq(writer.data, 1, 4) = U32LE(hash(getSubProtocolOf(heap, root).tag))
  /\ pc = "done" =>
       /\ result.err = "none"
       /\ reader.cursor = Len(writer.data)

\* the round trip of a container of two values, the first a string, is done
ExactConsumptionCase ==
  /\ pc = "done"
  /\ Len(heap[root.n].vals) >= 2
  /\ heap[root.n].vals[1].t = "string"

---------------------------------------------------------------------------
(* Reference.all and DeserializeContext.deref(ref, substitute).  The state *)
(* C of a call of Reference.all: input the array refs, values and done its *)
(* locals, refs the DeReferences of the context (id, and the substitute    *)
(* closure as the index i it resolves), log the calls of substitute, and   *)
(* called the arrays the callback was called with, in their order.         *)

\* a call of callback(values)
Callback(C) == [C EXCEPT !.called = Append(C.called, C.values)]

\* a check that is satisfied with one resolved element
checkSome(done) == \E i \in 1..Len(done) : done[i]

\* check: done.reduce((prev, curr) => prev && curr, true)
check(done) == \A i \in 1..Len(done) : done[i]

\* the closure given to deref for index i: value => { done[i] = true;
\* values[i] = value; check() && callback(values) }
Resolved(C, i, value) ==
  LET C1 == [C EXCEPT !.done[i] = TRUE, !.values[i] = value]
  IN IF check(C1.done) THEN Callback(C1) ELSE C1

\* DeserializeContext.deref(ref, substitute) with the closure of index i
deref(C, value, i) ==
  IF value.t = "reference" THEN [C EXCEPT !.refs = Append(C.refs, [id |-> value.n, i |-> i])]
  ELSE Resolved(C, i, value)

\* the forEach of Reference.all from index i on
RECURSIVE DerefEach(_, _)
DerefEach(C, i) ==
  IF i > Len(C.input) THEN C
  ELSE DerefEach(IF C.input[i].t # "reference" THEN C ELSE deref(C, C.input[i], i), i + 1)

\* Reference.all(deref, refs, callback)
all(refs) ==
  LET C0 == [input |-> refs, values |-> refs,
             done |-> [i \in 1..Len(refs) |-> refs[i].t # "reference"],
             refs |-> <<>>, log |-> <<>>, calls |-> <<>>, called |-> <<>>]
      C1 == DerefEach(C0, 1)
  IN IF check(C1.done) THEN Callback(C1) ELSE C1

\* what rebuild finds in its data: References, numbers, null
Elements == {Reference(0), Reference(1), Number(1), Null}

\* Reference.all(ctx.deref, refs, callback) in rebuild
CallAll ==
  /\ pc = "idle"
  /\ \E refs \in SeqsUpTo(Elements, MaxRefs) :
       /\ root' = Number(Len(refs))
       /\ dcontext' = all(refs)
  /\ pc' = "called"
  /\ result' = Returned("all", "none", Undef)
  /\ UNCHANGED <<subprotocols, hashes, registered, heap, writer, reader, context>>

\* the reader calls substitute of a DeReference it has not called yet, with
\* the object of its id
Resolve ==
  /\ pc = "called"
  /\ \E j \in 1..Len(dcontext.refs) :
       /\ \A k \in 1..Len(dcontext.log) : dcontext.log[k].ref # j
       /\ LET obj == Obj(dcontext.refs[j].id + 1)
              C == [dcontext EXCEPT !.log = Append(@, [ref |-> j, obj |-> obj])]
          IN /\ dcontext' = Resolved(C, dcontext.refs[j].i, obj)
             /\ result' = Returned("substitute", "none", obj)
  /\ UNCHANGED <<subprotocols, hashes, registered, heap, root, pc, writer, reader, context>>

\* a DeserializeContext without DeReferences; the objects of ids 0 and 1 are decoded
InitAll ==
  /\ subprotocols = standard.subprotocols
  /\ hashes = standard.hashes
  /\ registered = NothingRegistered
  /\ heap = <<NewObject("object", ""), NewObject("array", "")>>
  /\ root = Undef
  /\ pc = "idle"
  /\ writer = NewWriter
  /\ reader = NewReader(<<>>)
  /\ result = NoResult
  /\ context = NoContext
  /\ dcontext = NoDeserializeContext

NextAll == CallAll \/ Resolve

SpecAll == InitAll /\ [][NextAll]_vars

\* the indices of the array whose Reference is resolved
ResolvedIndices == {dcontext.refs[dcontext.log[k].ref].i : k \in 1..Len(dcontext.log)}

\* the indices of the array that hold a Reference
ReferenceIndices == {i \in 1..Len(dcontext.input) : dcontext.input[i].t = "reference"}

\* C26: once Reference.all is called, callback has been called exactly once
\* if every Reference of the array is resolved (at once if the array holds
\* none) and not at all otherwise, whatever the order of the resolutions;
\* the array it was given holds at every index of a Reference the object it
\* was resolved with and at every other index the element of refs.
AllResolved ==
  pc = "called" =>
    /\ Len(dcontext.refs) = Cardinality(ReferenceIndices)
    /\ IF ResolvedIndices = ReferenceIndices
         THEN /\ Len(dcontext.called) = 1
              /\ Len(dcontext.called[1]) = Len(dcontext.input)
              /\ \A i \in 1..Len(dcontext.input) :
                   dcontext.called[1][i] =
                     IF i \in ReferenceIndices THEN Obj(dcontext.input[i].n + 1)
                     ELSE dcontext.input[i]
       ELSE dcontext.called = <<>>

\* the References of an array of three elements were resolved, the second
\* one of the array before the first
AllResolvedCase ==
  /\ pc = "called"
  /\ Len(dcontext.input) = 3
  /\ Len(dcontext.called) = 1
  /\ Len(dcontext.log) = 2
  /\ dcontext.refs[dcontext.log[1].ref].i > dcontext.refs[dcontext.log[2].ref].i


---------------------------------------------------------------------------
(* One SerializeContext shared by the top-level serialize calls of a       *)
(* caller: serde.serialize(value, new Writer(), ctx) with the same ctx.    *)
(* context keeps ctx.refs, the next Reference id and the steps of all the  *)
(* calls; calls[k] is the number of steps at the end of call k.            *)

SharedContext(S, calls) == [refs |-> S.refs, nextId |-> S.nextId, log |-> S.log, calls |-> calls]

NoSharedContext == SharedContext(NewSerializeContext(<<>>), <<>>)

\* serde.serialize(value, new Writer(), ctx) of an object of the caller
SerializeShared ==
  /\ pc = "build"
  /\ Len(context.calls) < MaxCalls
  /\ \E a \in 1..Len(heap) :
       LET ctx == [NewSerializeContext(heap) EXCEPT !.refs = context.refs,
                                                    !.nextId = context.nextId,
                                                    !.log = context.log]
           S == serialize(Registry, ctx, Obj(a))
       IN /\ writer' = S.w
          /\ heap' = S.heap
          /\ context' = SharedContext(S, Append(context.calls, Len(S.log)))
          /\ result' = Returned("serialize", S.err, Undef)
  /\ UNCHANGED <<subprotocols, hashes, registered, root, pc, reader, dcontext>>

InitShared ==
  /\ subprotocols = standard.subprotocols
  /\ hashes = standard.hashes
  /\ registered = NothingRegistered
  /\ \E kind \in {"array", "object"} : heap = <<NewObject(kind, "")>>
  /\ root = Obj(1)
  /\ pc = "build"
  /\ writer = NewWriter
  /\ reader = NewReader(<<>>)
  /\ result = NoResult
  /\ context = NoSharedContext
  /\ dcontext = NoDeserializeContext

NextShared == AddValue \/ AddObject \/ SerializeShared

\* value graphs serialized by calls that share one SerializeContext
SpecShared == InitShared /\ [][NextShared]_vars

\* the Reference ids written as 'reference' placeholders by the calls
PlaceholderIds(log) ==
  {log[i].v.n : i \in {j \in 1..Len(log) : log[j].e = "entry" /\ log[j].v.t = "reference"}}

\* the Reference ids written as entries of a reference table by the calls
TableIds(log) == {log[i].n : i \in {j \in 1..Len(log) : log[j].e = "flush"}}

\* C27: every Reference id that the payloads of the calls sharing one
\* SerializeContext hold in a 'reference' placeholder is the id of an entry
\* of the reference table of one of these payloads
SharedComplete == PlaceholderIds(context.log) \subseteq TableIds(context.log)

\* two calls have shared the context and the second wrote a placeholder
SharedCompleteCase ==
  /\ Len(context.calls) = 2
  /\ result.err = "none"
  /\ \E i \in (context.calls[1] + 1)..context.calls[2] :
       context.log[i].e = "entry" /\ context.log[i].v.t = "reference"


---------------------------------------------------------------------------
(* A registry made with the default arguments, new SerdeBase(): no tag and *)
(* no hash, and the caller's calls of set and setSimple on it              *)

\* serde.setSimple(tag, filter, rebuild, force) with the pair of functions number mark
SetSimple(tag, mark, force) ==
  /\ LET reg == setSimple(Registry, tag, mark, force)
     IN /\ subprotocols' = reg.subprotocols
        /\ hashes' = reg.hashes
        /\ registered' =
             IF reg.err = "none"
               THEN [registered EXCEPT ![tag] = [mark |-> mark,
                                                 replaced |-> tag \in DOMAIN subprotocols]]
             ELSE registered
        /\ result' = [op |-> "setSimple", err |-> reg.err, v |-> Number(mark),
                      tag |-> tag, force |-> force]
  /\ UNCHANGED <<heap, root, pc, writer, reader, context, dcontext>>

RegisterSimple == \E tag \in UserTags : \E mark \in 1..MaxMark : \E force \in BOOLEAN :
                    SetSimple(tag, mark, force)

InitBlank ==
  /\ subprotocols = EmptyRegistry.subprotocols
  /\ hashes = EmptyRegistry.hashes
  /\ registered = NothingRegistered
  /\ heap = TaggedValues
  /\ root = Undef
  /\ pc = "idle"
  /\ writer = NewWriter
  /\ reader = NewReader(<<>>)
  /\ result = NoResult
  /\ context = NoContext
  /\ dcontext = NoDeserializeContext

NextBlank == Register \/ RegisterSimple

SpecBlank == InitBlank /\ [][NextBlank]_vars

\* C28: after every sequence of set and setSimple calls on a registry made
\* with the default arguments the hash index is the inverse of the tag
\* table: every registered tag is found under its hash, every entry of the
\* index names a registered tag under the hash of that tag, and no two
\* registered tags have the same hash.
IndexConsistent ==
  /\ \A t \in DOMAIN subprotocols : hash(t) \in DOMAIN hashes /\ hashes[hash(t)] = t
  /\ \A h \in DOMAIN hashes : hashes[h] \in DOMAIN subprotocols /\ hash(hashes[h]) = h
  /\ \A t \in DOMAIN subprotocols : \A u \in DOMAIN subprotocols : hash(t) = hash(u) => t = u

\* a forced registration of a tag whose hash another registered tag holds has failed
IndexConsistentCase ==
  /\ result.op \in {"set", "setSimple"}
  /\ result.force
  /\ result.err = "HashCollision"
  /\ \E t \in DOMAIN subprotocols : t # result.tag /\ hash(t) = hash(result.tag)


\* what the registry reg does with the value of the tag number i: the bytes
\* serialize writes for it and what deserialize returns for these bytes
Dispatch(reg, i) ==
  LET S == serialize(reg, NewSerializeContext(heap), Obj(i))
      x == deserialize(reg, NewDeserializeContext(S.heap, S.w.data))
  IN IF S.err # "none" THEN [data |-> <<>>, err |-> S.err, v |-> Undef]
     ELSE [data |-> S.w.data, err |-> x.D.err, v |-> x.v]

\* C29: a call of set or setSimple that fails with DuplicateTag or
\* HashCollision leaves the tag table and the hash index as they were, and
\* every tag registered before the call is dispatched as before it, by
\* serialize and by deserialize.
FailureAtomic ==
  [][(result'.op \in {"set", "setSimple"} /\ result'.err \in {"DuplicateTag", "HashCollision"}) =>
       /\ subprotocols' = subprotocols
       /\ hashes' = hashes
       /\ \A i \in 1..Len(TagOrder) :
            Registered(TagOrder[i]) =>
              Dispatch([subprotocols |-> subprotocols', hashes |-> hashes', err |-> "none"], i)
                = Dispatch(Registry, i)
    ]_vars

\* a registration of another pair of functions for a registered tag has failed
FailureAtomicCase ==
  /\ result.op \in {"set", "setSimple"}
  /\ result.err = "DuplicateTag"
  /\ registered[result.tag].mark # 0
  /\ registered[result.tag].mark # result.v.n


---------------------------------------------------------------------------
(* The Reader over a Uint8Array that is a view of an ArrayBuffer: the      *)
(* array has length bytes, the bytes of the ArrayBuffer from byteOffset    *)
(* on.  readByte and readBytes index the array, readUInt32 and readNumber  *)
(* make a DataView of the ArrayBuffer.                                     *)

\* new Uint8Array(under, byteOffset, length)
Uint8Array(under, byteOffset, length) ==
  [under |-> under, byteOffset |-> byteOffset, length |-> length]

\* buffer[i]: -1 stands for undefined
At(buffer, i) == IF i < buffer.length THEN buffer.under[buffer.byteOffset + i + 1] ELSE -1

\* buffer.slice(begin, end)
slice(buffer, begin, end) ==
  [i \in 1..Max2(0, Min2(end, buffer.length) - begin) |-> At(buffer, begin + i - 1)]

\* new DataView(under, start): the bytes of the ArrayBuffer from start on
DataView(under, start) == SubSeq(under, start + 1, Len(under))

\* DataView.getUint32(0, true) of the first four bytes
getUint32(view) ==
  view[1] + 256 * view[2] + 65536 * view[3]
  + 16777216 * (IF view[4] >= 128 THEN view[4] - 256 ELSE view[4])

\* DataView.getFloat64(0, true): a double is named by its eight bytes, lowest first
getFloat64(view) == [t |-> "number", n |-> 0, s |-> SubSeq(view, 1, 8)]

\* a Uint8Array that owns its bytes, as slice returns it
Bytes(b) == [t |-> "bytes", n |-> Len(b), s |-> b]

\* Reader.advance
advance(r, count) == [r EXCEPT !.cursor = r.cursor + count]

\* Reader.readByte
readByte(r) ==
  [r |-> advance(r, 1), err |-> "none",
   v |-> IF At(r.buffer, r.cursor) < 0 THEN Undef ELSE Number(At(r.buffer, r.cursor))]

\* Reader.readBytes
readBytes(r, size) ==
  [r |-> advance(r, size), err |-> "none",
   v |-> Bytes(slice(r.buffer, r.cursor, r.cursor + size))]

\* Reader.readUInt32: the DataView starts at the cursor in the ArrayBuffer;
\* a start past its end and a read past its end throw a RangeError
readUInt32(r) ==
  LET view == DataView(r.buffer.under, r.cursor)
  IN IF r.cursor > Len(r.buffer.under) \/ Len(view) < 4
       THEN [r |-> advance(r, 4), err |-> "RangeError", v |-> Undef]
     ELSE [r |-> advance(r, 4), err |-> "none", v |-> Number(getUint32(view))]

\* Reader.readNumber
readNumber(r) ==
  LET view == DataView(r.buffer.under, r.cursor)
  IN IF r.cursor > Len(r.buffer.under) \/ Len(view) < 8
       THEN [r |-> advance(r, 8), err |-> "RangeError", v |-> Undef]
     ELSE [r |-> advance(r, 8), err |-> "none", v |-> getFloat64(view)]

\* the caller's read x of the Reader; root is the argument of the call
Read4(op, argument, x) ==
  /\ pc = "reading"
  /\ reader.cursor <= UnderLen
  /\ root' = argument
  /\ reader' = x.r
  /\ result' = Returned(op, x.err, x.v)
  /\ UNCHANGED <<subprotocols, hashes, registered, heap, pc, writer, context, dcontext>>

CallReadByte == Read4("readByte", Undef, readByte(reader))

CallReadBytes == \E size \in 1..2 : Read4("readBytes", Number(size), readBytes(reader, size))

CallReadUInt32 == Read4("readUInt32", Undef, readUInt32(reader))

CallReadNumber == Read4("readNumber", Undef, readNumber(reader))

\* the contents of the ArrayBuffer: byte i is fill * i
Fills == {1, 3}

\* new Reader(buffer) of a Uint8Array the caller got: a whole ArrayBuffer or a part of one
InitReader ==
  /\ subprotocols = standard.subprotocols
  /\ hashes = standard.hashes
  /\ registered = NothingRegistered
  /\ heap = <<>>
  /\ root = Undef
  /\ pc = "reading"
  /\ writer = NewWriter
  /\ \E fill \in Fills : \E byteOffset \in 0..MaxOffset :
       \E length \in 0..(UnderLen - byteOffset) :
         reader = [buffer |-> Uint8Array([i \in 1..UnderLen |-> (fill * i) % 256],
                                         byteOffset, length),
                   cursor |-> 0]
  /\ result = NoResult
  /\ context = NoContext
  /\ dcontext = NoDeserializeContext

NextReader == CallReadByte \/ CallReadBytes \/ CallReadUInt32 \/ CallReadNumber

SpecReader == InitReader /\ [][NextReader]_vars

\* the step is a read of count bytes that the array holds at the cursor
Holds(count) == reader.cursor + count <= reader.buffer.length

\* C30: readUInt32 and readNumber at cursor c decode the bytes of the
\* Reader's array at c, c+1, ..., the bytes readByte and readBytes return
\* there, whatever the offset of the array in its ArrayBuffer, and return
\* no value when the array does not hold them; every read of bytes the
\* array holds advances the cursor by the number of bytes it decodes.
PositionConsistent ==
  [][/\ result'.op = "readByte" /\ Holds(1) =>
          /\ result'.v = Number(At(reader.buffer, reader.cursor))
          /\ reader'.cursor = reader.cursor + 1
     /\ result'.op = "readBytes" /\ Holds(root'.n) =>
          /\ result'.v = Bytes([i \in 1..root'.n |-> At(reader.buffer, reader.cursor + i - 1)])
          /\ reader'.cursor = reader.cursor + root'.n
     /\ result'.op = "readUInt32" =>
          IF Holds(4)
            THEN /\ result'.err = "none"
                 /\ result'.v = Number(getUint32(readBytes(reader, 4).v.s))
                 /\ reader'.cursor = reader.cursor + 4
          ELSE result'.err # "none"
     /\ result'.op = "readNumber" =>
          IF Holds(8)
            THEN /\ result'.err = "none"
                 /\ result'.v = getFloat64(readBytes(reader, 8).v.s)
                 /\ reader'.cursor = reader.cursor + 8
          ELSE result'.err # "none"
    ]_vars

\* readUInt32 has returned a number from an array that starts inside its ArrayBuffer
PositionConsistentCase ==
  /\ result.op = "readUInt32"
  /\ result.err = "none"
  /\ reader.buffer.byteOffset > 0
  /\ reader.cursor <= reader.buffer.length

=============================================================================
